---- MODULE Spec2Model ----
(***************************************************************************)
(* Taifho decision engine: move validator, move generator and the game     *)
(* loop, modelled from taifho-2025/src.                                     *)
(***************************************************************************)
EXTENDS Integers, Sequences, FiniteSets, TLC

VARIABLES
    board,          \* board[y][x]: the piece in the cell, or NoPiece
    currentPlayer,  \* color to move / color the generator is asked about
    vPiece,         \* isMoveValid argument: piece
    vFrom,          \* isMoveValid argument: from
    vTo,            \* isMoveValid argument: to
    valid,          \* result of the last isMoveValid call
    genColor,       \* getAllLegalMoves argument: color
    moves,          \* result of the last getAllLegalMoves call
    playerCount,    \* 2 or 4: the mode of the game being played
    placements,     \* colors that have finished, in finishing order
    plies,          \* number of moves applied by the game loop
    pc,             \* position of the driver
    table,          \* transposition table: entries in insertion order
    killerMoves,    \* depth -> killer moves, most recent first
    historyTable,   \* move -> history score
    recentMoves,    \* minimax anti-oscillation buffer
    mctsRecentMoves,\* MCTS anti-oscillation buffer
    positionHistory,\* position hash -> times recorded
    bestProgress,   \* color -> best total distance to goal so far
    stagnationCount,\* color -> recordings without progress
    moveCount,      \* number of recordPosition calls
    difficulties,   \* color -> name of its preset
    bestMove,       \* result of the last getBestMove call, or NoMove
    tree,           \* MCTS tree of the running search: path -> node
    simulation,     \* simulations done by the running MCTS search
    searches,       \* getBestMove calls made in the session
    won,            \* result of the last checkWinner call, or NoColor
    heap,           \* the arrays in memory: object number -> array
    heapAtCall,     \* the heap when the last simulateMove call was made
    simBoard,       \* simulateMove argument: the object number of the board
    simMove,        \* simulateMove argument: the move
    simResult,      \* object number of the board simulateMove returned, or 0
    copies,         \* simulateMove calls made
    evalColor,      \* evaluateBoard argument: color
    evalScore,      \* result of the last evaluateBoard call
    evalBefore,     \* result of the evaluateBoard call before the last
    ttCall,         \* the last transposition-table call: key, depth, result
    hashCall,       \* computeHash calls: the first ones, the last since the board changed
    ttReads,        \* table entries the last getBestMove call took a score or bound from
    orderCall,      \* the last call into moveOrdering.ts: its arguments and result
    searchCall,     \* the last minimaxSearch or minimaxRoot call: its arguments and result
    phase,          \* store: 'config', 'setup' or 'playing'
    setup,          \* store: the setup-phase state
    isSetupOpen,    \* store: the configuration dialog is shown
    pendingDisruption, \* store: the circle disruption on offer, or NoDisruption
    isViewingHistory,  \* store: an earlier position is shown
    gameWinner,     \* store: winner, or NoColor
    boardHistory,   \* store: the positions played, each with its player to move
    historyIndex,   \* store: index of the shown position in boardHistory, from 0
    playerTypes,    \* store: gameConfig.playerTypes, color -> 'human' or 'computer'
    aiCalls,        \* performAiMove calls waiting in their thinking delay
    effectDue,      \* the AI-turn effect of App has a changed dependency to react to
    lastOp          \* the last store action: what it was called with and what it did

vars == <<board, currentPlayer, vPiece, vFrom, vTo, valid, genColor, moves,
          playerCount, placements, plies, pc, table, killerMoves, historyTable,
          recentMoves, mctsRecentMoves, positionHistory, bestProgress,
          stagnationCount, moveCount, difficulties, bestMove, tree, simulation,
          searches, won, heap, heapAtCall, simBoard, simMove, simResult, copies,
          evalColor, evalScore, evalBefore, ttCall, hashCall, ttReads, orderCall, searchCall,
          phase, setup, isSetupOpen, pendingDisruption, isViewingHistory, gameWinner,
          boardHistory, historyIndex, playerTypes, aiCalls, effectDue, lastOp>>

\* the state of the game store beyond the board, the turn and the placements
storeVars == <<phase, setup, isSetupOpen, pendingDisruption, isViewingHistory,
               gameWinner, boardHistory, historyIndex, playerTypes, aiCalls,
               effectDue, lastOp>>

\* arguments and results of the single calls
callVars == <<won, heap, heapAtCall, simBoard, simMove, simResult, copies,
              evalColor, evalScore, evalBefore, ttCall, hashCall, ttReads, orderCall, searchCall,
              storeVars>>

\* arguments and results of the calls of the later sections
probeVars == <<hashCall, ttReads, orderCall, searchCall, storeVars>>

sessionVars == <<table, killerMoves, historyTable, recentMoves, mctsRecentMoves,
                 positionHistory, bestProgress, stagnationCount, moveCount,
                 difficulties, bestMove, tree, simulation, searches>>

----------------------------------------------------------------------------
(* Board / move data model                                                  *)

BOARD_SIZE == 10

Colors == {"red", "blue", "yellow", "green"}

PieceTypes == {"circle", "square", "triangle", "diamond"}

NoPiece == [id |-> <<"none", "none", 0>>, type |-> "none", color |-> "none"]

createPiece(type, color, idSuffix) ==
    [id |-> <<color, type, idSuffix>>, type |-> type, color |-> color]

Pos(x, y) == [x |-> x, y |-> y]

Coords == 0 .. (BOARD_SIZE - 1)

Cells == {Pos(x, y) : x \in Coords, y \in Coords}

Abs(n) == IF n < 0 THEN -n ELSE n

Max(a, b) == IF a >= b THEN a ELSE b

Sign(n) == IF n = 0 THEN 0 ELSE IF n > 0 THEN 1 ELSE -1

InBoard(x, y) == x >= 0 /\ x < 10 /\ y >= 0 /\ y < 10

\* board[y]?.[x]: an index outside the grid reads as "no piece"
At(b, x, y) == IF InBoard(x, y) THEN b[y][x] ELSE NoPiece

Occupied(b, x, y) == At(b, x, y) # NoPiece

EmptyBoard == [y \in Coords |-> [x \in Coords |-> NoPiece]]

Put(b, x, y, p) == [b EXCEPT ![y] = [@ EXCEPT ![x] = p]]

getForwardDirection(color) ==
    CASE color = "red" -> [dx |-> 0, dy |-> 1]
      [] color = "blue" -> [dx |-> 0, dy |-> -1]
      [] color = "yellow" -> [dx |-> 1, dy |-> 0]
      [] color = "green" -> [dx |-> -1, dy |-> 0]

getGoalLine(color) ==
    CASE color = "red" -> [axis |-> "y", value |-> 9]
      [] color = "blue" -> [axis |-> "y", value |-> 0]
      [] color = "yellow" -> [axis |-> "x", value |-> 9]
      [] color = "green" -> [axis |-> "x", value |-> 0]

getStartLine(color) ==
    CASE color = "red" -> [axis |-> "y", value |-> 0]
      [] color = "blue" -> [axis |-> "y", value |-> 9]
      [] color = "yellow" -> [axis |-> "x", value |-> 0]
      [] color = "green" -> [axis |-> "x", value |-> 9]

----------------------------------------------------------------------------
(* Move validator (utils/moveValidation.ts)                                 *)

validateSquare(dx, dy) ==
    (Abs(dx) = 1 /\ dy = 0) \/ (Abs(dy) = 1 /\ dx = 0)

validateDiamond(dx, dy) == Abs(dx) = 1 /\ Abs(dy) = 1

validateCircle(dx, dy) == Abs(dx) <= 1 /\ Abs(dy) <= 1

\* variant: forward taken along y for every color
validateTriangleRowsOnly(color, dx, dy) ==
    LET forward == IF color = "red" THEN 1 ELSE -1 IN
    (dy = forward /\ Abs(dx) = 1) \/ (dy = -forward /\ dx = 0)

validateTriangle(color, dx, dy) ==
    LET fwd == getForwardDirection(color) IN
    IF fwd.dy # 0
    THEN (dy = fwd.dy /\ Abs(dx) = 1) \/ (dy = -fwd.dy /\ dx = 0)
    ELSE (dx = fwd.dx /\ Abs(dy) = 1) \/ (dx = -fwd.dx /\ dy = 0)

\* the line shape a jump of the given type may have
JumpShape(type, absDx, absDy) ==
    CASE type = "ortho" -> (absDx = 2 /\ absDy = 0) \/ (absDx = 0 /\ absDy = 2)
      [] type = "diag" -> absDx = 2 /\ absDy = 2
      [] type = "any" -> (absDx = 2 /\ absDy = 0) \/ (absDx = 0 /\ absDy = 2)
                          \/ (absDx = 2 /\ absDy = 2)

validateJump(from, to, b, type) ==
    LET dx == to.x - from.x
        dy == to.y - from.y
    IN  /\ JumpShape(type, Abs(dx), Abs(dy))
        /\ Occupied(b, from.x + dx \div 2, from.y + dy \div 2)

validateTriangleJump(color, from, to, b) ==
    LET dx == to.x - from.x
        dy == to.y - from.y
        forward == IF color = "red" THEN 1 ELSE -1
    IN  IF dy = 2 * forward /\ Abs(dx) = 2
        THEN validateJump(from, to, b, "diag")
        ELSE IF dy = 2 * (-forward) /\ dx = 0
             THEN validateJump(from, to, b, "ortho")
             ELSE FALSE

\* the straight line a leap of the given type may follow
LeapShape(type, absDx, absDy) ==
    CASE type = "ortho" -> (absDx = 0 \/ absDy = 0) /\ ~(absDx = 0 /\ absDy = 0)
      [] type = "diag" -> absDx = absDy /\ absDx # 0
      [] type = "any" -> (absDx = 0 \/ absDy = 0 \/ absDx = absDy)
                          /\ ~(absDx = 0 /\ absDy = 0)

validateLeap(from, to, b, type) ==
    LET dx == to.x - from.x
        dy == to.y - from.y
        stepX == Sign(dx)
        stepY == Sign(dy)
        totalSteps == Max(Abs(dx), Abs(dy))
        n == (totalSteps - 1) \div 2
        obstacleStep == n + 1
    IN  /\ LeapShape(type, Abs(dx), Abs(dy))
        /\ ~(totalSteps < 3 \/ totalSteps % 2 = 0)
        /\ \A step \in 1 .. totalSteps :
              LET x == from.x + stepX * step
                  y == from.y + stepY * step
              IN  /\ InBoard(x, y)
                  /\ IF step = obstacleStep
                     THEN Occupied(b, x, y)
                     ELSE step < totalSteps => ~Occupied(b, x, y)

validateTriangleLeap(color, from, to, b) ==
    LET dx == to.x - from.x
        dy == to.y - from.y
        forward == IF color = "red" THEN 1 ELSE -1
    IN  IF dy * forward > 0 /\ Abs(dx) = Abs(dy)
        THEN validateLeap(from, to, b, "diag")
        ELSE IF dx = 0 /\ dy * forward < 0
             THEN validateLeap(from, to, b, "ortho")
             ELSE FALSE

\* variant: the occupancy of the destination is not looked at
BasicRejectNoOccupancy(from, to, b) ==
    \/ (from.x = to.x /\ from.y = to.y)
    \/ (to.x < 0 \/ to.x >= 10 \/ to.y < 0 \/ to.y >= 10)

\* lines 11-15: same cell, off the board, or occupied destination
BasicReject(from, to, b) ==
    \/ (from.x = to.x /\ from.y = to.y)
    \/ (to.x < 0 \/ to.x >= 10 \/ to.y < 0 \/ to.y >= 10)
    \/ Occupied(b, to.x, to.y)

\* variant: the starting line is taken to be a row for every color
StartLineRuleRowsOnly(piece, from, to, b) ==
    LET dx == to.x - from.x
        dy == to.y - from.y
        startLine == getStartLine(piece.color)
    IN  /\ from.y = startLine.value
        /\ dy = 0
        /\ Abs(dx) = 1
        /\ ~Occupied(b, to.x, to.y)

\* lines 23-34: the starting-line rule
StartLineRule(piece, from, to, b) ==
    LET dx == to.x - from.x
        dy == to.y - from.y
        startLine == getStartLine(piece.color)
        isOnStartLine == IF startLine.axis = "y"
                         THEN from.y = startLine.value
                         ELSE from.x = startLine.value
        fwd == getForwardDirection(piece.color)
        isAlongStartLine == \/ (fwd.dy # 0 /\ dy = 0 /\ Abs(dx) = 1)
                            \/ (fwd.dx # 0 /\ dx = 0 /\ Abs(dy) = 1)
    IN  isOnStartLine /\ isAlongStartLine /\ ~Occupied(b, to.x, to.y)

\* lines 37-48: the switch on the piece type
PieceRule(piece, from, to, b) ==
    LET dx == to.x - from.x
        dy == to.y - from.y
    IN  CASE piece.type = "square" ->
               validateSquare(dx, dy) \/ validateJump(from, to, b, "ortho")
                   \/ validateLeap(from, to, b, "ortho")
          [] piece.type = "diamond" ->
               validateDiamond(dx, dy) \/ validateJump(from, to, b, "diag")
                   \/ validateLeap(from, to, b, "diag")
          [] piece.type = "circle" ->
               validateCircle(dx, dy) \/ validateJump(from, to, b, "any")
                   \/ validateLeap(from, to, b, "any")
          [] piece.type = "triangle" ->
               validateTriangle(piece.color, dx, dy)
                   \/ validateTriangleJump(piece.color, from, to, b)
                   \/ validateTriangleLeap(piece.color, from, to, b)
          [] OTHER -> FALSE

isMoveValid(piece, from, to, b) ==
    IF BasicReject(from, to, b) THEN FALSE
    ELSE IF StartLineRule(piece, from, to, b) THEN TRUE
    ELSE PieceRule(piece, from, to, b)

----------------------------------------------------------------------------
(* Move generator (ai/moveGenerator.ts) and move application                *)

\* the cells in the order of the nested loops: y outer, x inner
CellSeq ==
    [i \in 1 .. (BOARD_SIZE * BOARD_SIZE) |->
        Pos((i - 1) % BOARD_SIZE, (i - 1) \div BOARD_SIZE)]

Move(from, to, piece) == [from |-> from, to |-> to, piece |-> piece]

SeqToSet(s) == {s[i] : i \in 1 .. Len(s)}

RECURSIVE Flatten(_)
Flatten(ss) == IF ss = <<>> THEN <<>> ELSE Head(ss) \o Flatten(Tail(ss))

\* variant: the scan keeps the pieces of every color
myPiecesAnyColor(b, color) ==
    SelectSeq(CellSeq, LAMBDA c : Occupied(b, c.x, c.y))

\* step 1: the cells holding a piece of the color
myPieces(b, color) ==
    SelectSeq(CellSeq, LAMBDA c : Occupied(b, c.x, c.y) /\ b[c.y][c.x].color = color)

\* variant: the scan of the empty cells stops one row early
emptyCellsShort(b) ==
    SelectSeq(CellSeq, LAMBDA c : c.y < BOARD_SIZE - 1 /\ ~Occupied(b, c.x, c.y))

\* the empty cells
emptyCells(b) == SelectSeq(CellSeq, LAMBDA c : ~Occupied(b, c.x, c.y))

\* step 2: every piece against every empty cell, kept when the validator accepts
getAllLegalMoves(b, color) ==
    LET mine == myPieces(b, color)
        empties == emptyCells(b)
        movesOf(pos) ==
            LET targets == SelectSeq(empties,
                               LAMBDA t : isMoveValid(b[pos.y][pos.x], pos, t, b))
            IN  [i \in 1 .. Len(targets) |-> Move(pos, targets[i], b[pos.y][pos.x])]
    IN  Flatten([i \in 1 .. Len(mine) |-> movesOf(mine[i])])

simulateMove(b, move) ==
    LET p == b[move.from.y][move.from.x]
    IN  IF p # NoPiece
        THEN Put(Put(b, move.to.x, move.to.y, p), move.from.x, move.from.y, NoPiece)
        ELSE b

----------------------------------------------------------------------------
(* Win condition (utils/winCondition.ts)                                    *)

isAtGoal(color, x, y) ==
    IF getGoalLine(color).axis = "y"
    THEN y = getGoalLine(color).value
    ELSE x = getGoalLine(color).value

getPieceCounts(b) ==
    [color \in Colors |->
        [total |-> Cardinality({c \in Cells : b[c.y][c.x].color = color}),
         atGoal |-> Cardinality({c \in Cells : b[c.y][c.x].color = color
                                               /\ isAtGoal(color, c.x, c.y)})]]

hasPlayerFinished(b, color) ==
    getPieceCounts(b)[color].total > 0
        /\ getPieceCounts(b)[color].total = getPieceCounts(b)[color].atGoal

NoColor == "none"

WinnerOrder == <<"red", "blue", "yellow", "green">>

\* variant: the colors in placements are not passed over
checkWinnerAnyPlaced(b, placed) ==
    LET counts == getPieceCounts(b)
        done == {i \in 1 .. 4 :
                    /\ counts[WinnerOrder[i]].total > 0
                    /\ counts[WinnerOrder[i]].total = counts[WinnerOrder[i]].atGoal}
    IN  IF done = {} THEN NoColor
        ELSE WinnerOrder[CHOOSE i \in done : \A j \in done : i <= j]

\* the first color, in the order red, blue, yellow, green, that has all its
\* pieces on its goal line and is not in placements; NoColor for null
checkWinner(b, placed) ==
    LET counts == getPieceCounts(b)
        done == {i \in 1 .. 4 :
                    /\ WinnerOrder[i] \notin SeqToSet(placed)
                    /\ counts[WinnerOrder[i]].total > 0
                    /\ counts[WinnerOrder[i]].total = counts[WinnerOrder[i]].atGoal}
    IN  IF done = {} THEN NoColor
        ELSE WinnerOrder[CHOOSE i \in done : \A j \in done : i <= j]

----------------------------------------------------------------------------
(* Initial boards (utils/boardUtils.ts)                                     *)

pieceTypes ==
    <<"square", "triangle", "diamond", "circle",
      "circle", "diamond", "triangle", "square">>

\* placePiecesRow: S T D C C D T S on columns 1..8, ids 1 and 2 per type
placePiecesRow(color) ==
    [x \in Coords |->
        IF x \in 1 .. 8
        THEN createPiece(pieceTypes[x], color, IF x <= 4 THEN 1 ELSE 2)
        ELSE NoPiece]

createInitialBoard2P ==
    [y \in Coords |->
        IF y = 0 THEN placePiecesRow("red")
        ELSE IF y = BOARD_SIZE - 1 THEN placePiecesRow("blue")
        ELSE [x \in Coords |-> NoPiece]]

createInitialBoard4P ==
    [y \in Coords |-> [x \in Coords |->
        IF y = 0 /\ x \in 1 .. 8 THEN createPiece(pieceTypes[x], "red", x)
        ELSE IF y = 9 /\ x \in 1 .. 8 THEN createPiece(pieceTypes[x], "blue", x)
        ELSE IF x = 0 /\ y \in 1 .. 8 THEN createPiece(pieceTypes[y], "yellow", y)
        ELSE IF x = 9 /\ y \in 1 .. 8 THEN createPiece(pieceTypes[y], "green", y)
        ELSE NoPiece]]

createInitialBoard(count) ==
    IF count = 4 THEN createInitialBoard4P ELSE createInitialBoard2P

----------------------------------------------------------------------------
(* Turn order of the 4-player games (ai/__tests__/fourPlayer.test.ts)       *)

PLAYER_ORDER_4P == <<"red", "green", "blue", "yellow">>

IndexOf(s, e) == CHOOSE i \in 1 .. Len(s) : s[i] = e

\* the first color after current, in 4-player order, that is not placed
RECURSIVE NextUnplaced(_, _, _)
NextUnplaced(idx, placed, tries) ==
    IF tries = 0 THEN 0
    ELSE LET n == (idx % 4) + 1
         IN  IF PLAYER_ORDER_4P[n] \notin SeqToSet(placed) THEN n
             ELSE NextUnplaced(n, placed, tries - 1)

getNextPlayer4P(current, placed) ==
    LET n == NextUnplaced(IndexOf(PLAYER_ORDER_4P, current), placed, 4)
    IN  IF n = 0 THEN current ELSE PLAYER_ORDER_4P[n]

----------------------------------------------------------------------------
(* Session caches: maps with a default (Map.get(k) || d, Map.set)           *)

EmptyMap == <<>>

MapGet(map, key, default) == IF key \in DOMAIN map THEN map[key] ELSE default

MapSet(map, key, value) == (key :> value) @@ map

Min(a, b) == IF a <= b THEN a ELSE b

\* no move (null)
NoMove == [from |-> Pos(-1, -1), to |-> Pos(-1, -1), piece |-> NoPiece]

\* the text "fx,fy->tx,ty" that keys a move in the buffers and the history table
hashMoveStr(move) == <<move.from.x, move.from.y, move.to.x, move.to.y>>

reverseHash(move) == <<move.to.x, move.to.y, move.from.x, move.from.y>>

\* same origin and same destination (the comparison of killers and hash moves)
sameSquares(a, b) == hashMoveStr(a) = hashMoveStr(b)

----------------------------------------------------------------------------
(* Zobrist hash (ai/transpositionTable.ts): the XOR of one 64-bit key per   *)
(* (cell, type, color) and one per player to move. The keys are distinct    *)
(* pseudo-random numbers; the hash is modelled by the set of keys XOR-ed    *)
(* together, which is what the XOR determines as long as no two sets of     *)
(* keys collide.                                                            *)

\* variant: the hash depends on the piece ids too
computeHashWithIds(b, player) ==
    [cells |-> {<<c.x, c.y, b[c.y][c.x].type, b[c.y][c.x].color, b[c.y][c.x].id>> :
                    c \in {d \in Cells : Occupied(b, d.x, d.y)}},
     player |-> player]

computeHash(b, player) ==
    [cells |-> {<<c.x, c.y, b[c.y][c.x].type, b[c.y][c.x].color>> :
                    c \in {d \in Cells : Occupied(b, d.x, d.y)}},
     player |-> player]

\* the type and the color in every cell
Layout(b) == [y \in Coords |-> [x \in Coords |-> <<b[y][x].type, b[y][x].color>>]]

\* one computeHash call: its result, its side to move and the layout hashed
HashRecord(b, player) == [hash |-> computeHash(b, player), player |-> player, layout |-> Layout(b)]

NoHashRecord == [hash |-> [cells |-> {}, player |-> "none"], player |-> "none", layout |-> <<>>]

\* no computeHash call made yet
NoHashCall == [first |-> [c \in Colors |-> NoHashRecord], last |-> NoHashRecord, applied |-> <<>>, relabelled |-> FALSE, undone |-> FALSE]

----------------------------------------------------------------------------
(* Position history (ai/positionHistory.ts)                                 *)
(* Scores and penalties are kept in hundredths, so that the multipliers     *)
(* moveCount / 50 and 1 + moveCount / 100 stay integers.                    *)

MAX_REPETITIONS == 3

REPETITION_PENALTY_PER_COUNT == 2000

STAGNATION_PENALTY_BASE == 500

\* +Infinity and -Infinity of the floating-point scores
PosInf == 2000000000

NegInf == -2000000000

\* a finite penalty too large to write in hundredths: larger than every
\* difference of two evaluation scores, smaller than Infinity
HugePenalty == 1000000000

\* 500 * 1.5^(stag - 3) * 3 exceeds the largest double from stag = 1736 on
StagnationOverflow == 1736

\* 2000 * 2^(count - 1) * 2.5 exceeds the largest double from count = 1013 on
RepetitionOverflow == 1013

RECURSIVE Pow(_, _)
Pow(base, e) == IF e = 0 THEN 1 ELSE base * Pow(base, e - 1)

getPositionCount(b, player) == MapGet(positionHistory, computeHash(b, player), 0)

wouldCauseRepetition(b, player) == getPositionCount(b, player) >= MAX_REPETITIONS - 1

\* the previous color in the order red, green, blue, yellow
getPreviousPlayer(current) ==
    PLAYER_ORDER_4P[((IndexOf(PLAYER_ORDER_4P, current) - 1 + 3) % 4) + 1]

distToGoal(color, x, y) ==
    IF getGoalLine(color).axis = "y"
    THEN Abs(y - getGoalLine(color).value)
    ELSE Abs(x - getGoalLine(color).value)

RECURSIVE Sum(_)
Sum(s) == IF s = <<>> THEN 0 ELSE Head(s) + Sum(Tail(s))

\* the cells are scanned row by row; the empty ones add nothing
calculateTotalDistance(b, color) ==
    LET mine == myPieces(b, color)
    IN  Sum([i \in 1 .. Len(mine) |-> distToGoal(color, mine[i].x, mine[i].y)])

\* the position history as one value
history ==
    [moveCount |-> moveCount, positionHistory |-> positionHistory,
     bestProgress |-> bestProgress, stagnationCount |-> stagnationCount]

\* the history after resetPositionHistory
EmptyHistory ==
    [moveCount |-> 0, positionHistory |-> EmptyMap,
     bestProgress |-> EmptyMap, stagnationCount |-> EmptyMap]

\* the history h after recordPosition(b, player)
recordPosition(h, b, player) ==
    LET hash == computeHash(b, player)
        prevPlayer == getPreviousPlayer(player)
        currentDist == calculateTotalDistance(b, prevPlayer)
        \* prevBest is Infinity when nothing is stored for prevPlayer
        progress == prevPlayer \notin DOMAIN h.bestProgress
                        \/ currentDist < MapGet(h.bestProgress, prevPlayer, 0)
    IN  [moveCount |-> h.moveCount + 1,
         positionHistory |-> MapSet(h.positionHistory, hash,
                                    MapGet(h.positionHistory, hash, 0) + 1),
         bestProgress |-> IF progress
                          THEN MapSet(h.bestProgress, prevPlayer, currentDist)
                          ELSE h.bestProgress,
         stagnationCount |->
             IF progress THEN MapSet(h.stagnationCount, prevPlayer, 0)
             ELSE MapSet(h.stagnationCount, prevPlayer,
                         MapGet(h.stagnationCount, prevPlayer, 0) + 1)]

\* in hundredths; moveMultiplier * 100 = min(2 * moveCount, 300)
getStagnationPenalty(player) ==
    LET stag == MapGet(stagnationCount, player, 0)
        mm100 == Min(2 * moveCount, 300)
    IN  IF stag < 3 THEN 0
        ELSE IF mm100 = 0 THEN 0
        ELSE IF stag >= StagnationOverflow /\ mm100 = 300 THEN PosInf
        ELSE IF stag - 3 > 8 THEN HugePenalty
        ELSE (STAGNATION_PENALTY_BASE * mm100 * Pow(3, stag - 3)) \div Pow(2, stag - 3)

\* in hundredths; moveMultiplier * 100 = min(100 + moveCount, 250)
getRepetitionPenalty(b, player) ==
    LET count == getPositionCount(b, player)
        mm100 == Min(100 + moveCount, 250)
    IN  IF count = 0 THEN 0
        ELSE IF count >= RepetitionOverflow /\ mm100 = 250 THEN PosInf
        ELSE IF count - 1 > 10 THEN HugePenalty
        ELSE REPETITION_PENALTY_PER_COUNT * Pow(2, count - 1) * mm100

getCombinedPenalty(b, player) ==
    LET r == getRepetitionPenalty(b, player)
        s == getStagnationPenalty(player)
    IN  IF r = PosInf \/ s = PosInf THEN PosInf
        ELSE Min(r + s, HugePenalty)

isDrawByRepetition(b, player) == getPositionCount(b, player) >= MAX_REPETITIONS

----------------------------------------------------------------------------
(* Evaluator (ai/evaluator.ts), in hundredths                               *)

SCORE_WIN == 99999900

SCORE_LOSS == -99999900

\* min(1 + moveNum / 100, 3), times 100
progressMultiplier == Min(100 + moveCount, 300)

\* the score of a board nobody has won, before the falling-behind penalty:
\* material, progress, goal bonus and the almost-win bonus
heuristicScore(b, color) ==
    LET pm100 == progressMultiplier
        W_MATERIAL == 100 * 100
        W_PROGRESS == 50 * pm100
        W_GOAL == 2000 * pm100
        W_ALMOST_WIN == 10000 * 100
        occupied == SelectSeq(CellSeq, LAMBDA c : Occupied(b, c.x, c.y))
        pieces == SeqToSet(occupied)
        mine == {c \in pieces : b[c.y][c.x].color = color}
        opp == pieces \ mine
        atGoal(c) == isAtGoal(b[c.y][c.x].color, c.x, c.y)
        value(c) ==
            W_MATERIAL
              + (BOARD_SIZE - 1 - distToGoal(b[c.y][c.x].color, c.x, c.y)) * W_PROGRESS
              + (IF atGoal(c) THEN W_GOAL ELSE 0)
        myTotal == Cardinality(mine)
        myAtGoal == Cardinality({c \in mine : atGoal(c)})
        oppTotal == Cardinality(opp)
        oppAtGoal == Cardinality({c \in opp : atGoal(c)})
    IN  Sum([i \in 1 .. Len(occupied) |->
                IF occupied[i] \in mine THEN value(occupied[i])
                ELSE 0 - value(occupied[i])])
          + (IF myTotal > 0 /\ myAtGoal >= myTotal - 1 THEN W_ALMOST_WIN ELSE 0)
          - (IF oppTotal > 0 /\ oppAtGoal >= oppTotal - 1 THEN W_ALMOST_WIN ELSE 0)

\* the penalty for falling behind: oppAtGoal counts the pieces on their goal
\* line of all the other colors together
fallingBehindPenalty(b, color) ==
    LET W_FALLING_BEHIND == 500
        atGoalOf(cs) == Cardinality({c \in Cells : b[c.y][c.x].color \in cs
                                        /\ isAtGoal(b[c.y][c.x].color, c.x, c.y)})
        myAtGoal == atGoalOf({color})
        oppAtGoal == atGoalOf(Colors \ {color})
        maxOppAtGoal == Max(oppAtGoal, 1)
    IN  IF moveCount > 50 /\ myAtGoal < maxOppAtGoal
        THEN W_FALLING_BEHIND * (maxOppAtGoal - myAtGoal) * progressMultiplier
        ELSE 0

evaluateBoard(b, color) ==
    LET winner == checkWinner(b, <<>>)
    IN  IF winner = color THEN SCORE_WIN
        ELSE IF winner # NoColor THEN SCORE_LOSS
        ELSE heuristicScore(b, color) - fallingBehindPenalty(b, color)

----------------------------------------------------------------------------
(* Move ordering (ai/moveOrdering.ts). Ordering scores are doubled, so that *)
(* the half cells of the centre distance |x - 4.5| + |y - 4.5| are integers.*)

getForwardProgress(move, player) ==
    IF getGoalLine(player).axis = "y"
    THEN Abs(move.from.y - getGoalLine(player).value)
           - Abs(move.to.y - getGoalLine(player).value)
    ELSE Abs(move.from.x - getGoalLine(player).value)
           - Abs(move.to.x - getGoalLine(player).value)

\* twice the score of the move
scoreMove(move, player, hashMove) ==
    LET reachesGoal == IF getGoalLine(player).axis = "y"
                       THEN move.to.y = getGoalLine(player).value
                       ELSE move.to.x = getGoalLine(player).value
        dx == Abs(move.to.x - move.from.x)
        dy == Abs(move.to.y - move.from.y)
        isJump == dx > 1 \/ dy > 1
        centerDist2 == Abs(2 * move.to.x - 9) + Abs(2 * move.to.y - 9)
    IN  IF hashMove # NoMove /\ sameSquares(move, hashMove) THEN 2 * 10000
        ELSE (IF reachesGoal THEN 2 * 5000 ELSE 0)
               + (IF isJump THEN 2 * (1000 + (dx + dy) * 100) ELSE 0)
               + 2 * getForwardProgress(move, player) * 100
               + (20 - centerDist2) * 5

\* Array.prototype.sort with (a, b) => b.score - a.score: stable, descending
RECURSIVE InsertByScore(_, _)
InsertByScore(sorted, e) ==
    IF sorted = <<>> THEN <<e>>
    ELSE IF Head(sorted).score >= e.score
         THEN <<Head(sorted)>> \o InsertByScore(Tail(sorted), e)
         ELSE <<e>> \o sorted

RECURSIVE SortByScore(_)
SortByScore(s) ==
    IF s = <<>> THEN <<>>
    ELSE InsertByScore(SortByScore(SubSeq(s, 1, Len(s) - 1)), s[Len(s)])

orderMoves(ms, player, hashMove) ==
    LET scoredMoves == [i \in 1 .. Len(ms) |->
                           [move |-> ms[i], score |-> scoreMove(ms[i], player, hashMove)]]
        sorted == SortByScore(scoredMoves)
    IN  [i \in 1 .. Len(sorted) |-> sorted[i].move]

MAX_KILLERS == 2

\* storeKiller with the duplicate test on the whole move, piece included
storeKillerByPiece(killers, depth, move) ==
    LET list == MapGet(killers, depth, <<>>)
        isDuplicate == \E i \in 1 .. Len(list) : list[i] = move
        longer == <<move>> \o list
    IN  IF isDuplicate THEN killers
        ELSE MapSet(killers, depth,
                    IF Len(longer) > MAX_KILLERS
                    THEN SubSeq(longer, 1, Len(longer) - 1)
                    ELSE longer)

\* the killer lists after storeKiller(depth, move)
storeKiller(killers, depth, move) ==
    LET list == MapGet(killers, depth, <<>>)
        isDuplicate == \E i \in 1 .. Len(list) : sameSquares(list[i], move)
        longer == <<move>> \o list
    IN  IF isDuplicate THEN killers
        ELSE MapSet(killers, depth,
                    IF Len(longer) > MAX_KILLERS
                    THEN SubSeq(longer, 1, Len(longer) - 1)
                    ELSE longer)

getKillers(killers, depth) == MapGet(killers, depth, <<>>)

\* the history table after updateHistory(move, depth)
updateHistory(hist, move, depth) ==
    MapSet(hist, hashMoveStr(move),
           MapGet(hist, hashMoveStr(move), 0) + depth * depth)

getHistoryScore(hist, move) == MapGet(hist, hashMoveStr(move), 0)

\* no ordering call made yet
NoOrderCall == [hashMove |-> NoMove, depth |-> 0, ordered |-> <<>>]

orderMovesAdvanced(ms, player, depth, hashMove, killers, hist) ==
    LET list == getKillers(killers, depth)
        isKiller(m) == \E i \in 1 .. Len(list) : sameSquares(list[i], m)
        scoredMoves ==
            [i \in 1 .. Len(ms) |->
                [move |-> ms[i],
                 score |-> scoreMove(ms[i], player, hashMove)
                             + (IF isKiller(ms[i]) THEN 2 * 3000 ELSE 0)
                             + 2 * getHistoryScore(hist, ms[i])]]
        sorted == SortByScore(scoredMoves)
    IN  [i \in 1 .. Len(sorted) |-> sorted[i].move]

----------------------------------------------------------------------------
(* Transposition table (ai/transpositionTable.ts): a Map, kept as the list  *)
(* of its entries in insertion order                                        *)

TT_SIZE == 262144

NoEntry == [key |-> "none", depth |-> -1, score |-> 0, flag |-> "none", bestMove |-> NoMove]

\* position of the key in the table, 0 when absent
ttIndex(t, hash) ==
    IF \E i \in 1 .. Len(t) : t[i].key = hash
    THEN CHOOSE i \in 1 .. Len(t) : t[i].key = hash
    ELSE 0

\* variant: every store overwrites
ttStoreAlways(t, hash, depth, score, flag, move) ==
    LET i == ttIndex(t, hash)
        entry == [key |-> hash, depth |-> depth, score |-> score, flag |-> flag,
                  bestMove |-> move]
    IN  IF i = 0 THEN Append(t, entry) ELSE [t EXCEPT ![i] = entry]

\* the table after ttStore(hash, depth, score, flag, bestMove)
ttStore(t, hash, depth, score, flag, move) ==
    LET i == ttIndex(t, hash)
        entry == [key |-> hash, depth |-> depth, score |-> score, flag |-> flag,
                  bestMove |-> move]
        stored == IF i = 0 THEN Append(t, entry)
                  ELSE IF t[i].depth <= depth THEN [t EXCEPT ![i] = entry]
                  ELSE t
        \* for (i = 0; i < keys.length / 4; i++): the first ceil(n / 4) keys go
        dropped == (Len(stored) + 3) \div 4
    IN  IF Len(stored) > TT_SIZE
        THEN SubSeq(stored, dropped + 1, Len(stored))
        ELSE stored

ttLookup(t, hash, depth) ==
    LET i == ttIndex(t, hash)
    IN  IF i # 0 /\ t[i].depth >= depth THEN t[i] ELSE NoEntry

\* bookkeeping, not in the code: the entry a store has just written is marked
\* with the root color of the search that wrote it, with the function that
\* wrote it and with whether its score is a search value without penalty
markEntry(t, hash, root, kind, pure) ==
    LET i == ttIndex(t, hash)
    IN  IF i # 0 /\ "root" \notin DOMAIN t[i]
        THEN [t EXCEPT ![i] = @ @@ [root |-> root, kind |-> kind, pure |-> pure]]
        ELSE t

\* bookkeeping, not in the code: the search of rootPlayer takes the score of
\* the entry as its result ("score") or as a bound of its window ("bound")
noteRead(s, entry, rootPlayer, use) ==
    [s EXCEPT !.reads = @ \cup {[writer |-> entry.root, kind |-> entry.kind,
                                 pure |-> entry.pure, reader |-> rootPlayer,
                                 use |-> use]}]

\* ttClear()
ttClear(t) == <<>>

\* no table call made yet
NoTtCall == [hash |-> "none", depth |-> 0, result |-> NoEntry]

----------------------------------------------------------------------------
(* Minimax search (ai/minimax.ts). Scores are in hundredths.                *)

\* absent optional fields of AIConfig are FALSE / 0
AIConfig(depth, randomness, useTT, useID, useMCTS, sims, timeLimit) ==
    [depth |-> depth, useRepetitionPenalty |-> TRUE, randomness |-> randomness,
     useTT |-> useTT, useIterativeDeepening |-> useID, useMCTS |-> useMCTS,
     mctsSimulations |-> sims, timeLimit |-> timeLimit]

AI_DIFFICULTIES ==
    [beginner    |-> AIConfig(0, 100, FALSE, FALSE, FALSE, 0, 0),
     easy        |-> AIConfig(1, 30, FALSE, FALSE, FALSE, 0, 0),
     medium      |-> AIConfig(2, 10, FALSE, FALSE, FALSE, 0, 0),
     challenging |-> AIConfig(3, 0, TRUE, FALSE, FALSE, 0, 0),
     hard        |-> AIConfig(4, 0, TRUE, TRUE, FALSE, 0, 3000),
     master      |-> AIConfig(0, 0, FALSE, FALSE, TRUE, 2000, 0),
     grandmaster |-> AIConfig(5, 0, TRUE, TRUE, TRUE, 3000, 5000)]

Difficulties == DOMAIN AI_DIFFICULTIES

INFINITY == 100000000

REPETITION_PENALTY == 150000

MAX_RECENT_MOVES == 12

\* deepest search the model runs; a preset's depth beyond it is cut to it
MaxDepth == 2

PLAYER_ORDER_2P == <<"red", "blue">>

isReverseOfRecent(recent, move) ==
    \E i \in 1 .. Len(recent) : recent[i] = reverseHash(move)

\* push, and shift once the buffer is longer than 12
pushRecent(recent, move) ==
    LET longer == Append(recent, hashMoveStr(move))
    IN  IF Len(longer) > MAX_RECENT_MOVES THEN Tail(longer) ELSE longer

detectPlayerCount(b) ==
    IF Cardinality({b[c.y][c.x].color : c \in {d \in Cells : Occupied(b, d.x, d.y)}}) > 2
    THEN 4 ELSE 2

\* order[(indexOf(player) + 1) % length]; indexOf is -1 for a color that is
\* not in the order
getNextPlayer(player, b) ==
    LET order == IF detectPlayerCount(b) = 4 THEN PLAYER_ORDER_4P ELSE PLAYER_ORDER_2P
        idx == IF \E i \in 1 .. Len(order) : order[i] = player
               THEN IndexOf(order, player) - 1
               ELSE -1
    IN  order[((idx + 1) % Len(order)) + 1]

\* the value of a node that is not searched further
leafValue(b, player, rootPlayer) ==
    IF detectPlayerCount(b) = 4 /\ player # rootPlayer
    THEN (3 * evaluateBoard(b, rootPlayer) - 7 * evaluateBoard(b, player)) \div 10
    ELSE evaluateBoard(b, rootPlayer)

\* the 2-player rule in every mode: the node types alternate
alternateAlways(b, nextPlayer, rootPlayer, isMaximizing) == ~isMaximizing

\* whether the node below a node of board b maximizes
nextIsMaximizing(b, nextPlayer, rootPlayer, isMaximizing) ==
    IF detectPlayerCount(b) = 4 THEN nextPlayer = rootPlayer ELSE ~isMaximizing

\* a search that is asked for its calls (s has the field calls) collects
\* the arguments of every minimaxSearch call
noteCall(s, depth, player, isMaximizing, rootPlayer) ==
    IF "calls" \in DOMAIN s
    THEN [s EXCEPT !.calls = @ \cup {[depth |-> depth, player |-> player,
                                       isMaximizing |-> isMaximizing,
                                       rootPlayer |-> rootPlayer]}]
    ELSE s

RECURSIVE minimaxSearch(_, _, _, _, _, _, _, _, _)
RECURSIVE searchMoves(_, _, _, _, _, _, _, _, _, _, _, _, _)

\* the for loop left after its first move, whatever the window
searchFirstMove(b, depth, player, alpha, beta, isMaximizing, rootPlayer, config, s, ms, i, bestScore, bestSoFar) ==
    LET newBoard == simulateMove(b, ms[i])
        nextPlayer == getNextPlayer(player, newBoard)
        child == minimaxSearch(newBoard, depth - 1, nextPlayer, alpha, beta,
                               nextIsMaximizing(b, nextPlayer, rootPlayer, isMaximizing),
                               rootPlayer, config, s)
    IN  [bestScore |-> child.score, bestMove |-> ms[i], beta |-> beta, s |-> child.s]

\* the for loop of minimaxSearch from move i on; s holds the transposition
\* table, the killer lists and the history table
searchMoves(b, depth, player, alpha, beta, isMaximizing, rootPlayer, config, s, ms, i, bestScore, bestSoFar) ==
    IF i > Len(ms)
    THEN [bestScore |-> bestScore, bestMove |-> bestSoFar, beta |-> beta, s |-> s]
    ELSE
      LET move == ms[i]
          newBoard == simulateMove(b, move)
          nextPlayer == getNextPlayer(player, newBoard)
          child == minimaxSearch(newBoard, depth - 1, nextPlayer, alpha, beta,
                                 nextIsMaximizing(b, nextPlayer, rootPlayer,
                                                  isMaximizing),
                                 rootPlayer, config, s)
          score == child.score
          better == IF isMaximizing THEN score > bestScore ELSE score < bestScore
          newBest == IF better THEN score ELSE bestScore
          newMove == IF better THEN move ELSE bestSoFar
          newAlpha == IF isMaximizing THEN Max(alpha, score) ELSE alpha
          newBeta == IF isMaximizing THEN beta ELSE Min(beta, score)
      IN  IF newBeta <= newAlpha
          THEN [bestScore |-> newBest, bestMove |-> newMove, beta |-> newBeta,
                s |-> IF config.useTT
                      THEN [child.s EXCEPT
                              !.killerMoves = storeKiller(@, depth, move),
                              !.historyTable = updateHistory(@, move, depth)]
                      ELSE child.s]
          ELSE searchMoves(b, depth, player, newAlpha, newBeta, isMaximizing,
                           rootPlayer, config, child.s, ms, i + 1, newBest, newMove)

\* minimaxSearch from its table lookup on: hash, ttEntry and legal are the
\* position's hash, its table entry (NoEntry without one) and its legal moves
searchNode(b, depth, player, alpha, beta, isMaximizing, rootPlayer, config, s, hash, ttEntry, legal) ==
    LET hit == ttEntry # NoEntry
        alpha1 == IF hit /\ ttEntry.flag = "lower" THEN Max(alpha, ttEntry.score) ELSE alpha
        beta1 == IF hit /\ ttEntry.flag = "upper" THEN Min(beta, ttEntry.score) ELSE beta
        ordered == IF config.useTT
                   THEN orderMovesAdvanced(legal, player, depth, ttEntry.bestMove,
                                           s.killerMoves, s.historyTable)
                   ELSE legal
        origAlpha == alpha1
        r == searchMoves(b, depth, player, alpha1, beta1, isMaximizing, rootPlayer,
                         config,
                         IF hit /\ ttEntry.flag # "exact"
                         THEN noteRead(s, ttEntry, rootPlayer, "bound") ELSE s,
                         ordered, 1,
                         IF isMaximizing THEN 0 - INFINITY ELSE INFINITY, NoMove)
        flag == IF r.bestScore <= origAlpha THEN "upper"
                ELSE IF r.bestScore >= r.beta THEN "lower"
                ELSE "exact"
    IN  IF hit /\ (ttEntry.flag = "exact" \/ alpha1 >= beta1)
        THEN [score |-> ttEntry.score, s |-> noteRead(s, ttEntry, rootPlayer, "score")]
        ELSE IF depth = 0 \/ legal = <<>>
        THEN [score |-> leafValue(b, player, rootPlayer), s |-> s]
        ELSE [score |-> r.bestScore,
              s |-> IF config.useTT
                    THEN [r.s EXCEPT
                            !.table = markEntry(ttStore(@, hash, depth, r.bestScore, flag,
                                                        r.bestMove),
                                                hash, rootPlayer, "node", TRUE)]
                    ELSE r.s]

minimaxSearch(b, depth, player, alpha, beta, isMaximizing, rootPlayer, config, s) ==
    searchNode(b, depth, player, alpha, beta, isMaximizing, rootPlayer, config,
               noteCall(s, depth, player, isMaximizing, rootPlayer),
               computeHash(b, player),
               IF config.useTT THEN ttLookup(s.table, computeHash(b, player), depth)
               ELSE NoEntry,
               getAllLegalMoves(b, player))

\* Math.random() = Random(seed, i) / RandomLevels for draw number i of a call
RandomLevels == 7

RandomSeeds == 0 .. (RandomLevels - 1)

Random(seed, i) == (seed + i - 1) % RandomLevels

\* x - penalty on scores that may be -Infinity, with a penalty that may be
\* +Infinity
MinusPenalty(x, penalty) ==
    IF x = NegInf \/ penalty = PosInf THEN NegInf ELSE x - penalty

\* the score of root move number i, after penalties and randomness
rootScore(searched, move, newBoard, nextPlayer, config, recent, seed, i) ==
    LET afterReverse ==
            IF config.useRepetitionPenalty /\ isReverseOfRecent(recent, move)
            THEN MinusPenalty(searched, REPETITION_PENALTY)
            ELSE searched
        afterPosition ==
            IF config.useRepetitionPenalty
            THEN MinusPenalty(afterReverse, getCombinedPenalty(newBoard, nextPlayer))
            ELSE afterReverse
    IN  IF config.randomness > 0 /\ afterPosition # NegInf
        THEN afterPosition + ((2 * Random(seed, i) - RandomLevels) * config.randomness * 500) \div RandomLevels
        ELSE afterPosition

\* the for loop of minimaxRoot from move i on
RECURSIVE rootMoves(_, _, _, _, _, _, _, _, _, _)

\* the loop after the search below root move i returned child
rootNext(b, current, config, recent, seed, ms, i, alpha, scoredMoves, child) ==
    LET move == ms[i]
        newBoard == simulateMove(b, move)
        score == rootScore(child.score, move, newBoard, getNextPlayer(current, newBoard),
                           config, recent, seed, i)
    IN  rootMoves(b, current, config, child.s, recent, seed, ms, i + 1,
                  Max(alpha, score),
                  Append(scoredMoves, [move |-> move, score |-> score,
                                       searched |-> child.score]))

rootMoves(b, current, config, s, recent, seed, ms, i, alpha, scoredMoves) ==
    IF i > Len(ms) THEN [scoredMoves |-> scoredMoves, s |-> s]
    ELSE
      LET move == ms[i]
          newBoard == simulateMove(b, move)
          nextPlayer == getNextPlayer(current, newBoard)
      IN  rootNext(b, current, config, recent, seed, ms, i, alpha, scoredMoves,
                   minimaxSearch(newBoard, config.depth - 1, nextPlayer, alpha, INFINITY,
                                 FALSE, current, config, s))

\* the end of minimaxRoot: scored holds the scored moves and the caches after
\* the loop; the moves are sorted, the first is stored, pushed and returned
rootResult(current, config, recent, hash, scored) ==
    LET sorted == SortByScore(scored.scoredMoves)
    IN  [move |-> sorted[1].move,
         s |-> IF config.useTT
               THEN [scored.s EXCEPT
                       !.table = markEntry(ttStore(@, hash, config.depth, sorted[1].score,
                                                   "exact", sorted[1].move),
                                           hash, current, "root",
                                           sorted[1].score = sorted[1].searched)]
               ELSE scored.s,
         recentMoves |-> pushRecent(recent, sorted[1].move)]

\* minimaxRoot over the legal moves: the move, the caches and the
\* anti-oscillation buffer after it
\* the hash move of the root: that of the entry ttLookup(hash, config.depth)
\* returns, null without one
rootHashMove(b, current, config, s) ==
    IF config.useTT
    THEN ttLookup(s.table, computeHash(b, current), config.depth).bestMove
    ELSE NoMove

rootSearch(b, current, config, s, recent, seed, legal) ==
    LET hash == computeHash(b, current)
        hashMove == rootHashMove(b, current, config, s)
        ordered == IF config.useTT
                   THEN orderMovesAdvanced(legal, current, config.depth, hashMove,
                                           s.killerMoves, s.historyTable)
                   ELSE orderMoves(legal, current, hashMove)
    IN  IF legal = <<>> THEN [move |-> NoMove, s |-> s, recentMoves |-> recent]
        ELSE rootResult(current, config, recent, hash,
                        rootMoves(b, current, config, s, recent, seed, ordered, 1,
                                  0 - INFINITY, <<>>))

minimaxRoot(b, current, config, s, recent, seed) ==
    rootSearch(b, current, config, s, recent, seed, getAllLegalMoves(b, current))

\* iterativeDeepening: the iterations 1 .. lastDepth are run; lastDepth is the
\* last depth whose time check found less than 80% of the limit used
RECURSIVE deepen(_, _, _, _, _, _, _, _, _)

\* the loop after the iteration at depth returned r
deepenFrom(b, current, config, seed, depth, lastDepth, bestSoFar, r) ==
    deepen(b, current, config, r.s, r.recentMoves, seed, depth + 1, lastDepth,
           IF r.move # NoMove THEN r.move ELSE bestSoFar)

deepen(b, current, config, s, recent, seed, depth, lastDepth, bestSoFar) ==
    IF depth > lastDepth THEN [move |-> bestSoFar, s |-> s, recentMoves |-> recent]
    ELSE deepenFrom(b, current, config, seed, depth, lastDepth, bestSoFar,
                    minimaxRoot(b, current, [config EXCEPT !.depth = depth],
                                s, recent, seed))

iterativeDeepening(b, current, config, s, recent, seed, lastDepth) ==
    deepen(b, current, config, [s EXCEPT !.killerMoves = EmptyMap], recent, seed,
           1, Min(lastDepth, config.depth), NoMove)

----------------------------------------------------------------------------
(* Monte Carlo tree search (ai/mcts.ts)                                     *)
(* A node is named by its path from the root: the sequence of child         *)
(* numbers. Rollout results, and so wins, are counted in units of           *)
(* 1 / 4000000: a result is (score + 100000) / 200000 with a score that is  *)
(* a multiple of 0.05.                                                      *)

WinUnit == 4000000

\* simulations the model runs; a preset's count beyond it is cut to it
MaxSimulations == 6

createNode(b, player, move) ==
    [board |-> b, player |-> player, move |-> move, children |-> 0,
     visits |-> 0, wins |-> 0, untriedMoves |-> getAllLegalMoves(b, player)]

\* the children of the node at path p, in the order they were pushed
childPaths(t, p) == [i \in 1 .. t[p].children |-> Append(p, i)]

\* ucb1 = wins / visits + 1.41 * sqrt(ln(parentVisits) / visits) is not
\* computed: of two children with equal visits the one with more wins has the
\* larger value, and of two with equal wins too the loop keeps the earlier;
\* between children with different visits either may have the larger value.
\* selectChild returns one of the children no sibling beats in this way.
selectable(t, p) ==
    {i \in 1 .. t[p].children :
        ~\E j \in 1 .. t[p].children :
            /\ j # i
            /\ t[Append(p, j)].visits = t[Append(p, i)].visits
            /\ \/ t[Append(p, j)].wins > t[Append(p, i)].wins
               \/ (t[Append(p, j)].wins = t[Append(p, i)].wins /\ j < i)}

\* the nodes the selection loop can stop at, starting from p
RECURSIVE selectLeaves(_, _)
selectLeaves(t, p) ==
    IF t[p].untriedMoves = <<>> /\ t[p].children > 0
    THEN UNION {selectLeaves(t, Append(p, i)) : i \in selectable(t, p)}
    ELSE {p}

\* expand: the last untried move is popped and its child pushed
expand(t, p) ==
    LET node == t[p]
        move == node.untriedMoves[Len(node.untriedMoves)]
        newBoard == simulateMove(node.board, move)
        nextPlayer == getNextPlayer(node.player, newBoard)
        q == Append(p, node.children + 1)
    IN  [path |-> q,
         tree |-> MapSet([t EXCEPT ![p].untriedMoves = SubSeq(@, 1, Len(@) - 1),
                                   ![p].children = @ + 1],
                         q, createNode(newBoard, nextPlayer, move))]

Clamp(lo, v, hi) == Max(lo, Min(v, hi))

\* the rollout result in units of 1 / WinUnit (scores are in hundredths)
rollout(b, current, rootPlayer) ==
    LET score == IF detectPlayerCount(b) = 4 /\ current # rootPlayer
                 THEN (7 * evaluateBoard(b, current)
                         - 3 * evaluateBoard(b, rootPlayer)) \div 10
                 ELSE evaluateBoard(b, rootPlayer)
    IN  Clamp(0, (score + 10000000) \div 5, WinUnit)

\* backpropagate with the loop left one node early: the root is not updated
RECURSIVE backpropagateBelowRoot(_, _, _, _, _)
backpropagateBelowRoot(t, p, result, rootPlayer, is4Player) ==
    LET adjusted == IF is4Player
                    THEN (IF t[p].player = rootPlayer THEN result ELSE WinUnit - result)
                    ELSE result
        updated == [t EXCEPT ![p].visits = @ + 1, ![p].wins = @ + adjusted]
    IN  IF p = <<>> THEN t
        ELSE backpropagateBelowRoot(updated, SubSeq(p, 1, Len(p) - 1),
                                    IF is4Player THEN result ELSE WinUnit - result,
                                    rootPlayer, is4Player)

\* backpropagate from the node at path p up to the root
RECURSIVE backpropagate(_, _, _, _, _)
backpropagate(t, p, result, rootPlayer, is4Player) ==
    LET adjusted == IF is4Player
                    THEN (IF t[p].player = rootPlayer THEN result ELSE WinUnit - result)
                    ELSE result
        updated == [t EXCEPT ![p].visits = @ + 1, ![p].wins = @ + adjusted]
    IN  IF p = <<>> THEN updated
        ELSE backpropagate(updated, SubSeq(p, 1, Len(p) - 1),
                           IF is4Player THEN result ELSE WinUnit - result,
                           rootPlayer, is4Player)

\* one pass of the simulation loop that stops the selection at leaf
simulate(t, leaf, rootPlayer, is4Player) ==
    LET e == IF t[leaf].untriedMoves # <<>> THEN expand(t, leaf)
             ELSE [path |-> leaf, tree |-> t]
        node == e.tree[e.path]
    IN  backpropagate(e.tree, e.path, rollout(node.board, node.player, rootPlayer),
                      rootPlayer, is4Player)

\* exact numbers beyond the machine integers: hi * Limb + lo, 0 <= lo < Limb
Limb == 100000

Big(n) == <<n \div Limb, n % Limb>>

BigTimes(a, m) == <<a[1] * m + (a[2] * m) \div Limb, (a[2] * m) % Limb>>

BigMinus(a, b) == <<a[1] - b[1] + (a[2] - b[2]) \div Limb, (a[2] - b[2]) % Limb>>

BigLess(a, b) == a[1] < b[1] \/ (a[1] = b[1] /\ a[2] < b[2])

\* -Infinity among the final scores
BigNegInf == <<NegInf, 0>>

REPETITION_PENALTY_VISITS == 3

isReverseMove(recent, move) == \E i \in 1 .. Len(recent) : recent[i] = reverseHash(move)

isSameMove(recent, move) == \E i \in 1 .. Len(recent) : recent[i] = hashMoveStr(move)

\* the final score of a root child, in units of 1 / (100 * WinUnit):
\* visits * winRate, * 0.3 for a reversed or repeated move, - penalty / 1000,
\* * 0.1 for a position that would repeat
finalScore(child, recent) ==
    LET winRate100 == IF child.visits > 0 THEN child.wins ELSE 0
        discounted == IF isReverseMove(recent, child.move) \/ isSameMove(recent, child.move)
                      THEN BigTimes(Big(winRate100), REPETITION_PENALTY_VISITS)
                      ELSE BigTimes(Big(winRate100), 10)
        positionPenalty == getCombinedPenalty(child.board, child.player)
        penalized == IF positionPenalty > 0
                     THEN BigMinus(discounted, BigTimes(Big(positionPenalty), 400))
                     ELSE discounted
    IN  IF positionPenalty = PosInf THEN BigNegInf
        ELSE IF wouldCauseRepetition(child.board, child.player) THEN penalized
        ELSE BigTimes(penalized, 10)

\* the selection loop over root.children from child i on
RECURSIVE bestRootChild(_, _, _, _, _)
bestRootChild(t, recent, i, bestScore, bestChild) ==
    IF i > t[<<>>].children THEN bestChild
    ELSE LET child == t[<<i>>]
             score == finalScore(child, recent)
         IN  IF child.move = NoMove
             THEN bestRootChild(t, recent, i + 1, bestScore, bestChild)
             ELSE IF BigLess(bestScore, score)
             THEN bestRootChild(t, recent, i + 1, score, i)
             ELSE bestRootChild(t, recent, i + 1, bestScore, bestChild)

\* the move mctsSearch returns once the simulations are done
mctsBestMove(t, recent) ==
    LET best == bestRootChild(t, recent, 1, BigNegInf, 0)
    IN  IF best = 0 THEN NoMove ELSE t[<<best>>].move

\* recordMove
recordMove(recent, move) ==
    LET longer == Append(recent, hashMoveStr(move))
    IN  IF Len(longer) > MAX_RECENT_MOVES THEN Tail(longer) ELSE longer

----------------------------------------------------------------------------
(* getBestMove (ai/minimax.ts) without its MCTS branch                       *)

\* the caches the minimax search reads and writes
caches == [table |-> table, killerMoves |-> killerMoves, historyTable |-> historyTable, reads |-> {}]

isPureMCTS(config) == config.useMCTS /\ ~config.useIterativeDeepening

\* variant: the moves that repeat a position are not filtered out
beginnerMoveAny(b, current, legal, seed) ==
    legal[((Random(seed, 1) * Len(legal)) \div RandomLevels) + 1]

\* level 1: a random move among those that do not repeat a position
beginnerMove(b, current, legal, seed) ==
    LET repeats(move) ==
            wouldCauseRepetition(simulateMove(b, move),
                                 getNextPlayer(current, simulateMove(b, move)))
        nonRepeatingMoves == SelectSeq(legal, LAMBDA m : ~repeats(m))
        availableMoves == IF Len(nonRepeatingMoves) > 0 THEN nonRepeatingMoves ELSE legal
    IN  availableMoves[((Random(seed, 1) * Len(availableMoves)) \div RandomLevels) + 1]

\* the move, the caches and the anti-oscillation buffer after the call;
\* lastDepth is the last iteration the time limit lets iterative deepening run
getBestMove(b, current, config, s, recent, seed, lastDepth) ==
    LET legal == getAllLegalMoves(b, current)
    IN  IF Len(legal) = 0
        THEN [move |-> NoMove, s |-> s, recentMoves |-> recent]
        ELSE IF config.depth = 0 /\ ~config.useMCTS
        THEN [move |-> beginnerMove(b, current, legal, seed), s |-> s,
              recentMoves |-> recent]
        ELSE IF config.useIterativeDeepening /\ config.timeLimit # 0
        THEN iterativeDeepening(b, current, config, s, recent, seed, lastDepth)
        ELSE minimaxRoot(b, current,
                         [config EXCEPT !.depth = Min(config.depth, MaxDepth)],
                         s, recent, seed)

----------------------------------------------------------------------------
(* A session of the engine: the turn loop of the AI-vs-AI games             *)
(* (ai/__tests__/fourPlayer.test.ts), started from small positions          *)

BoardOf(pieces) ==
    [y \in Coords |-> [x \in Coords |->
        IF \E p \in pieces : p[1] = x /\ p[2] = y
        THEN LET p == CHOOSE p \in pieces : p[1] = x /\ p[2] = y
             IN  createPiece(p[3], p[4], 1)
        ELSE NoPiece]]

\* two pieces a side, close to the goal lines
RaceBoard ==
    BoardOf({<<4, 6, "triangle", "red">>, <<4, 7, "square", "red">>,
             <<5, 2, "diamond", "blue">>, <<6, 1, "triangle", "blue">>})

\* a red triangle whose steps, jumps and leaps are all blocked
BlockedBoard ==
    BoardOf({<<0, 5, "triangle", "red">>,
             <<1, 6, "square", "blue">>, <<2, 7, "square", "blue">>,
             <<0, 4, "square", "blue">>, <<0, 3, "square", "blue">>})

\* one piece of each color, in mid-board
FourBoard ==
    BoardOf({<<4, 4, "square", "red">>, <<7, 2, "circle", "green">>,
             <<6, 6, "diamond", "blue">>, <<2, 7, "diamond", "yellow">>})

\* a long game on FourBoard in which every player steps back and forth
ShuffleMoves ==
    <<Move(Pos(4, 4), Pos(3, 4), FourBoard[4][4]),
      Move(Pos(7, 2), Pos(7, 3), FourBoard[2][7]),
      Move(Pos(6, 6), Pos(7, 7), FourBoard[6][6]),
      Move(Pos(2, 7), Pos(1, 8), FourBoard[7][2]),
      Move(Pos(3, 4), Pos(4, 4), FourBoard[4][4]),
      Move(Pos(7, 3), Pos(7, 2), FourBoard[2][7]),
      Move(Pos(7, 7), Pos(6, 6), FourBoard[6][6]),
      Move(Pos(1, 8), Pos(2, 7), FourBoard[7][2])>>

\* the board after the first k moves of the round
RECURSIVE ShuffleBoard(_)
ShuffleBoard(k) ==
    IF k = 0 THEN FourBoard ELSE simulateMove(ShuffleBoard(k - 1), ShuffleMoves[k])

\* the history after plies k + 1 .. Len(ShuffleMoves) of one round, each
\* followed by recordPosition(board, nextPlayer) as in the turn loop
RECURSIVE recordRound(_, _)
recordRound(h, k) ==
    IF k = Len(ShuffleMoves) THEN h
    ELSE recordRound(recordPosition(h, ShuffleBoard(k + 1),
                                    PLAYER_ORDER_4P[((k + 1) % 4) + 1]),
                     k + 1)

\* the history after n more rounds: the first half of them, then the rest
RECURSIVE recordRounds(_, _)
recordRounds(h, n) ==
    IF n = 0 THEN h
    ELSE IF n = 1 THEN recordRound(h, 0)
    ELSE CHOOSE later \in {recordRounds(half, n - (n \div 2)) :
                              half \in {recordRounds(h, n \div 2)}} : TRUE

\* rounds of the long game: green, who moves twice a round, has then stood
\* still for more than StagnationOverflow of its moves
LongGameRounds == 869

LongGameHistory ==
    recordRounds(recordPosition(EmptyHistory, FourBoard, "red"), LongGameRounds)

\* the history h after every position a move of the color leads to has been
\* recorded twice, from move i of the color on
RECURSIVE recordSuccessors(_, _, _, _)
recordSuccessors(h, b, color, i) ==
    LET legal == getAllLegalMoves(b, color)
        after == simulateMove(b, legal[i])
        next == getNextPlayer(color, after)
    IN  IF i > Len(legal) THEN h
        ELSE recordSuccessors(recordPosition(recordPosition(h, after, next), after, next),
                              b, color, i + 1)

\* a game that has come twice to every position red can move to on FourBoard
RevisitedHistory ==
    recordSuccessors(recordPosition(EmptyHistory, FourBoard, "red"), FourBoard, "red", 1)

\* positions the sessions start from: the board, who moves, the mode, and
\* the position history so far
Scenarios ==
    {[board |-> RaceBoard, player |-> "red", playerCount |-> 2,
      history |-> recordPosition(EmptyHistory, RaceBoard, "red")],
     [board |-> BlockedBoard, player |-> "red", playerCount |-> 2,
      history |-> recordPosition(EmptyHistory, BlockedBoard, "red")],
     [board |-> FourBoard, player |-> "red", playerCount |-> 4,
      history |-> LongGameHistory],
     [board |-> FourBoard, player |-> "red", playerCount |-> 4,
      history |-> RevisitedHistory]}

\* the difficulty of red, who moves first, and of every other color
Pairings == {<<d, "challenging">> : d \in Difficulties}

\* getBestMove calls per session
MaxSearches == 2

\* pendingDisruption: null
NoDisruption == [jumpedCircle |-> NoPiece, jumpedFrom |-> Pos(0, 0), targetRow |-> 0]

\* createInitialSetupState (types/game.ts)
createInitialSetupState ==
    [unplacedPieces |-> [c \in Colors |-> <<>>], selectedSetupPiece |-> NoPiece,
     setupPlayer |-> NoColor, confirmedPlayers |-> <<>>]

\* no store action made yet
NoOp ==
    [op |-> "none", by |-> "none", from |-> Pos(0, 0), to |-> Pos(0, 0),
     mover |-> NoColor, moved |-> FALSE, passed |-> FALSE, passedFrom |-> NoColor,
     replaced |-> FALSE, chain |-> <<>>, fault |-> FALSE, stale |-> FALSE,
     changed |-> FALSE, game |-> 0]

\* the store as useGameStore creates it, apart from the board and the turn
NoStore ==
    /\ phase = "config"
    /\ setup = createInitialSetupState
    /\ isSetupOpen = TRUE
    /\ pendingDisruption = NoDisruption
    /\ isViewingHistory = FALSE
    /\ gameWinner = NoColor
    /\ boardHistory = <<>>
    /\ historyIndex = -1
    /\ playerTypes = [c \in Colors |-> "human"]
    /\ aiCalls = {}
    /\ effectDue = FALSE
    /\ lastOp = NoOp

\* no call of the later sections made yet
NoSearchCall == [op |-> "none"]

NoProbes ==
    /\ hashCall = NoHashCall
    /\ ttReads = {}
    /\ orderCall = NoOrderCall
    /\ searchCall = NoSearchCall
    /\ NoStore

\* no single call made yet
NoCalls ==
    /\ won = "none"
    /\ heap = <<>>
    /\ heapAtCall = <<>>
    /\ simBoard = 0
    /\ simMove = [from |-> Pos(0, 0), to |-> Pos(0, 0)]
    /\ simResult = 0
    /\ copies = 0
    /\ evalColor = "red"
    /\ evalScore = 0
    /\ evalBefore = 0
    /\ ttCall = NoTtCall
    /\ NoProbes

\* the session after resetAIHistory, with no search made
FreshSession ==
    /\ table = <<>>
    /\ killerMoves = EmptyMap
    /\ historyTable = EmptyMap
    /\ recentMoves = <<>>
    /\ mctsRecentMoves = <<>>
    /\ positionHistory = EmptyMap
    /\ bestProgress = EmptyMap
    /\ stagnationCount = EmptyMap
    /\ moveCount = 0
    /\ difficulties = [c \in Colors |-> "medium"]
    /\ bestMove = NoMove
    /\ tree = EmptyMap
    /\ simulation = 0
    /\ searches = 0

----------------------------------------------------------------------------
(* The game loop of the AI-vs-AI games, with any legal move as the choice   *)

MaxPlies == 2

InitGame ==
    /\ NoCalls
    /\ playerCount \in {2, 4}
    /\ board = createInitialBoard(playerCount)
    /\ currentPlayer = "red"
    /\ placements = <<>>
    /\ plies = 0
    /\ pc = "play"
    /\ vPiece = NoPiece
    /\ vFrom = Pos(0, 0)
    /\ vTo = Pos(0, 0)
    /\ valid = FALSE
    /\ genColor = "red"
    /\ moves = <<>>
    /\ FreshSession

GameOver ==
    IF playerCount = 4 THEN Len(placements) >= 3 ELSE Len(placements) >= 1

\* one round of the loop: a legal move of the player to move is applied, a
\* newly finished color is placed, the turn passes
PlayMove ==
    /\ UNCHANGED callVars
    /\ pc = "play"
    /\ plies < MaxPlies
    /\ ~GameOver
    /\ \E from \in Cells, to \in Cells :
          /\ board[from.y][from.x].color = currentPlayer
          /\ isMoveValid(board[from.y][from.x], from, to, board)
          /\ LET newBoard == simulateMove(board, Move(from, to, board[from.y][from.x]))
                 winner == checkWinner(newBoard, placements)
             IN  /\ board' = newBoard
                 /\ placements' = IF winner # NoColor
                                  THEN Append(placements, winner)
                                  ELSE placements
                 /\ currentPlayer' =
                       IF playerCount = 4
                       THEN getNextPlayer4P(currentPlayer, placements)
                       ELSE IF currentPlayer = "red" THEN "blue" ELSE "red"
    /\ plies' = plies + 1
    /\ UNCHANGED <<vPiece, vFrom, vTo, valid, genColor, moves, playerCount, pc>>
    /\ UNCHANGED sessionVars

\* one call getAllLegalMoves(board, color)
Generate ==
    /\ UNCHANGED callVars
    /\ pc = "play"
    /\ \E color \in Colors :
          /\ genColor' = color
          /\ moves' = getAllLegalMoves(board, color)
    /\ pc' = "generated"
    /\ UNCHANGED <<board, currentPlayer, vPiece, vFrom, vTo, valid, playerCount,
                   placements, plies>>
    /\ UNCHANGED sessionVars

NextGame == PlayMove \/ Generate

SpecGame == InitGame /\ [][NextGame]_vars

InitAI ==
    /\ NoCalls
    /\ \E sc \in Scenarios :
          /\ board = sc.board
          /\ currentPlayer = sc.player
          /\ playerCount = sc.playerCount
          /\ moveCount = sc.history.moveCount
          /\ positionHistory = sc.history.positionHistory
          /\ bestProgress = sc.history.bestProgress
          /\ stagnationCount = sc.history.stagnationCount
    /\ \E pair \in Pairings :
          difficulties = [c \in Colors |-> IF c = "red" THEN pair[1] ELSE pair[2]]
    /\ table = <<>>
    /\ killerMoves = EmptyMap
    /\ historyTable = EmptyMap
    /\ recentMoves = <<>>
    /\ mctsRecentMoves = <<>>
    /\ bestMove = NoMove
    /\ tree = EmptyMap
    /\ simulation = 0
    /\ searches = 0
    /\ placements = <<>>
    /\ plies = 0
    /\ pc = "turn"
    /\ vPiece = NoPiece
    /\ vFrom = Pos(0, 0)
    /\ vTo = Pos(0, 0)
    /\ valid = FALSE
    /\ genColor = "red"
    /\ moves = <<>>

aiConfig == AI_DIFFICULTIES[difficulties[currentPlayer]]

\* const move = getBestMove(board, currentPlayer, aiConfig), for every preset
\* but the pure-MCTS one
GetBestMove ==
    /\ UNCHANGED <<won, heap, heapAtCall, simBoard, simMove, simResult, copies,
                   evalColor, evalScore, evalBefore, ttCall, hashCall, orderCall, searchCall,
                   storeVars>>
    /\ pc = "turn"
    /\ searches < MaxSearches
    /\ ~GameOver
    /\ ~isPureMCTS(aiConfig)
    /\ \E seed \in (IF aiConfig.randomness > 0 THEN RandomSeeds ELSE {0}),
          lastDepth \in (IF aiConfig.useIterativeDeepening THEN 1 .. MaxDepth
                         ELSE {MaxDepth}) :
          \E r \in {getBestMove(board, currentPlayer, aiConfig, caches, recentMoves,
                                 seed, lastDepth)} :
              /\ bestMove' = r.move
              /\ table' = r.s.table
              /\ killerMoves' = r.s.killerMoves
              /\ historyTable' = r.s.historyTable
              /\ recentMoves' = r.recentMoves
              /\ ttReads' = r.s.reads
    /\ searches' = searches + 1
    /\ pc' = "returned"
    /\ UNCHANGED <<board, currentPlayer, playerCount, placements, plies, difficulties,
                   mctsRecentMoves, positionHistory, bestProgress, stagnationCount,
                   moveCount, tree, simulation, vPiece, vFrom, vTo, valid, genColor,
                   moves>>

\* getBestMove with the pure-MCTS preset, up to the simulation loop of
\* mctsSearch: no move and a single move are returned at once
MctsStart ==
    /\ UNCHANGED callVars
    /\ pc = "turn"
    /\ searches < MaxSearches
    /\ ~GameOver
    /\ isPureMCTS(aiConfig)
    /\ LET root == createNode(board, currentPlayer, NoMove)
       IN  IF Len(root.untriedMoves) = 0
           THEN /\ bestMove' = NoMove
                /\ pc' = "returned"
                /\ UNCHANGED <<tree, mctsRecentMoves>>
           ELSE IF Len(root.untriedMoves) = 1
           THEN /\ bestMove' = root.untriedMoves[1]
                /\ mctsRecentMoves' = recordMove(mctsRecentMoves, root.untriedMoves[1])
                /\ pc' = "returned"
                /\ UNCHANGED tree
           ELSE /\ tree' = [p \in {<<>>} |-> root]
                /\ bestMove' = NoMove
                /\ pc' = "mcts"
                /\ UNCHANGED mctsRecentMoves
    /\ simulation' = 0
    /\ searches' = searches + 1
    /\ UNCHANGED <<board, currentPlayer, playerCount, placements, plies, difficulties,
                   table, killerMoves, historyTable, recentMoves, positionHistory,
                   bestProgress, stagnationCount, moveCount, vPiece, vFrom, vTo, valid,
                   genColor, moves>>

\* one pass of the simulation loop
MctsSimulate ==
    /\ UNCHANGED callVars
    /\ pc = "mcts"
    /\ simulation < Min(aiConfig.mctsSimulations, MaxSimulations)
    /\ \E leaf \in selectLeaves(tree, <<>>) :
          tree' = simulate(tree, leaf, currentPlayer, detectPlayerCount(board) = 4)
    /\ simulation' = simulation + 1
    /\ UNCHANGED <<board, currentPlayer, playerCount, placements, plies, difficulties,
                   table, killerMoves, historyTable, recentMoves, mctsRecentMoves,
                   positionHistory, bestProgress, stagnationCount, moveCount, bestMove,
                   searches, pc, vPiece, vFrom, vTo, valid, genColor, moves>>

\* the end of mctsSearch: the best root child's move is recorded and returned
MctsFinish ==
    /\ UNCHANGED callVars
    /\ pc = "mcts"
    /\ simulation = Min(aiConfig.mctsSimulations, MaxSimulations)
    /\ bestMove' = mctsBestMove(tree, mctsRecentMoves)
    /\ mctsRecentMoves' = IF bestMove' # NoMove
                          THEN recordMove(mctsRecentMoves, bestMove')
                          ELSE mctsRecentMoves
    /\ pc' = "returned"
    /\ UNCHANGED <<board, currentPlayer, playerCount, placements, plies, difficulties,
                   table, killerMoves, historyTable, recentMoves, positionHistory,
                   bestProgress, stagnationCount, moveCount, tree, simulation, searches,
                   vPiece, vFrom, vTo, valid, genColor, moves>>

nextInTurn(current, placed) ==
    IF playerCount = 4 THEN getNextPlayer4P(current, placed)
    ELSE IF current = "red" THEN "blue" ELSE "red"

\* the rest of the loop body: without a move the turn is skipped (the 2-player
\* loop stops); with one it is applied, the position recorded, a finished
\* color placed and the turn passed
TakeTurn ==
    /\ UNCHANGED callVars
    /\ pc = "returned"
    /\ IF bestMove = NoMove
       THEN /\ currentPlayer' = IF playerCount = 4
                                THEN getNextPlayer4P(currentPlayer, placements)
                                ELSE currentPlayer
            /\ pc' = IF playerCount = 4 THEN "turn" ELSE "over"
            /\ UNCHANGED <<board, placements, plies, positionHistory, bestProgress,
                           stagnationCount, moveCount>>
       ELSE LET newBoard == simulateMove(board, bestMove)
                nextPlayer == nextInTurn(currentPlayer, placements)
                h == recordPosition(history, newBoard, nextPlayer)
                winner == checkWinner(newBoard, placements)
            IN  /\ board' = newBoard
                /\ moveCount' = h.moveCount
                /\ positionHistory' = h.positionHistory
                /\ bestProgress' = h.bestProgress
                /\ stagnationCount' = h.stagnationCount
                /\ placements' = IF winner # NoColor THEN Append(placements, winner)
                                 ELSE placements
                /\ currentPlayer' = nextPlayer
                /\ plies' = plies + 1
                /\ pc' = "turn"
    /\ UNCHANGED <<playerCount, difficulties, table, killerMoves, historyTable,
                   recentMoves, mctsRecentMoves, bestMove, tree, simulation, searches,
                   vPiece, vFrom, vTo, valid, genColor, moves>>

\* the caller looks at the move and does not play it: the next call is made
\* from the same position
DiscardMove ==
    /\ UNCHANGED callVars
    /\ pc = "returned"
    /\ pc' = "turn"
    /\ UNCHANGED <<board, currentPlayer, playerCount, placements, plies, difficulties,
                   table, killerMoves, historyTable, recentMoves, mctsRecentMoves,
                   positionHistory, bestProgress, stagnationCount, moveCount, bestMove,
                   tree, simulation, searches, vPiece, vFrom, vTo, valid, genColor,
                   moves>>

NextAI ==
    GetBestMove \/ MctsStart \/ MctsSimulate \/ MctsFinish \/ TakeTurn \/ DiscardMove

SpecAI == InitAI /\ [][NextAI]_vars


----------------------------------------------------------------------------
(* Sessions with more than one game: resetAIHistory (ai/minimax.ts) between *)
(* the games                                                                *)

\* variant: the MCTS buffer is kept
resetMCTSHistoryKept(recent) == recent

\* resetMCTSHistory: the MCTS anti-oscillation buffer after it
resetMCTSHistory(recent) == <<>>

\* resetAIHistory(), called between two getBestMove calls or after a game
ResetAIHistory ==
    /\ pc \in {"turn", "over"}
    /\ recentMoves' = <<>>
    /\ killerMoves' = EmptyMap
    /\ historyTable' = EmptyMap
    /\ table' = <<>>
    /\ mctsRecentMoves' = resetMCTSHistory(mctsRecentMoves)
    /\ positionHistory' = EmptyHistory.positionHistory
    /\ bestProgress' = EmptyHistory.bestProgress
    /\ stagnationCount' = EmptyHistory.stagnationCount
    /\ moveCount' = EmptyHistory.moveCount
    /\ pc' = "reset"
    /\ UNCHANGED <<board, currentPlayer, playerCount, placements, plies, difficulties,
                   bestMove, tree, simulation, searches, vPiece, vFrom, vTo, valid,
                   genColor, moves>>
    /\ UNCHANGED callVars

\* the next game is set up: a board, red to move, the initial position
\* recorded
StartGame ==
    /\ pc = "reset"
    /\ searches < MaxSearches
    /\ \E sc \in Scenarios :
          /\ board' = sc.board
          /\ currentPlayer' = sc.player
          /\ playerCount' = sc.playerCount
          /\ \E h \in {recordPosition(history, sc.board, sc.player)} :
                /\ moveCount' = h.moveCount
                /\ positionHistory' = h.positionHistory
                /\ bestProgress' = h.bestProgress
                /\ stagnationCount' = h.stagnationCount
    /\ placements' = <<>>
    /\ plies' = 0
    /\ pc' = "turn"
    /\ UNCHANGED <<difficulties, table, killerMoves, historyTable, recentMoves,
                   mctsRecentMoves, bestMove, tree, simulation, searches, vPiece, vFrom,
                   vTo, valid, genColor, moves>>
    /\ UNCHANGED callVars

NextSession == NextAI \/ ResetAIHistory \/ StartGame

SpecSession == InitAI /\ [][NextSession]_vars

----------------------------------------------------------------------------
(* Single calls of ttStore, ttLookup and ttClear (ai/transpositionTable.ts) *)

\* hash.toString() of the positions stored
TableKeys == {"17", "42"}

\* search depths stored and asked for
MaxStoreDepth == 2

\* score, flag and best move of the entries stored
TableValues ==
    {[score |-> -50, flag |-> "exact", move |-> Move(Pos(4, 6), Pos(5, 7), RaceBoard[6][4])],
     [score |-> 200, flag |-> "lower", move |-> NoMove],
     [score |-> 200, flag |-> "upper", move |-> Move(Pos(4, 7), Pos(4, 5), RaceBoard[7][4])]}

InitTable ==
    /\ NoCalls
    /\ board = RaceBoard
    /\ currentPlayer = "red"
    /\ playerCount = 2
    /\ placements = <<>>
    /\ plies = 0
    /\ pc = "input"
    /\ vPiece = NoPiece
    /\ vFrom = Pos(0, 0)
    /\ vTo = Pos(0, 0)
    /\ valid = FALSE
    /\ genColor = "red"
    /\ moves = <<>>
    /\ FreshSession

\* one call ttStore(hash, depth, score, flag, bestMove)
TtStore ==
    /\ \E hash \in TableKeys, depth \in 0 .. MaxStoreDepth, v \in TableValues :
          /\ table' = ttStore(table, hash, depth, v.score, v.flag, v.move)
          /\ ttCall' = [hash |-> hash, depth |-> depth, result |-> NoEntry]
    /\ pc' = "stored"
    /\ UNCHANGED <<board, currentPlayer, vPiece, vFrom, vTo, valid, genColor, moves,
                   playerCount, placements, plies, killerMoves, historyTable,
                   recentMoves, mctsRecentMoves, positionHistory, bestProgress,
                   stagnationCount, moveCount, difficulties, bestMove, tree,
                   simulation, searches, won, heap, heapAtCall, simBoard, simMove,
                   simResult, copies, evalColor, evalScore, evalBefore>>
    /\ UNCHANGED probeVars

\* one call ttLookup(hash, depth)
TtLookup ==
    /\ \E hash \in TableKeys, depth \in 0 .. MaxStoreDepth :
          ttCall' = [hash |-> hash, depth |-> depth,
                     result |-> ttLookup(table, hash, depth)]
    /\ pc' = "lookedUp"
    /\ UNCHANGED <<board, currentPlayer, vPiece, vFrom, vTo, valid, genColor, moves,
                   playerCount, placements, plies, table, killerMoves, historyTable,
                   recentMoves, mctsRecentMoves, positionHistory, bestProgress,
                   stagnationCount, moveCount, difficulties, bestMove, tree,
                   simulation, searches, won, heap, heapAtCall, simBoard, simMove,
                   simResult, copies, evalColor, evalScore, evalBefore>>
    /\ UNCHANGED probeVars

\* one call ttClear()
TtClear ==
    /\ table' = ttClear(table)
    /\ ttCall' = NoTtCall
    /\ pc' = "cleared"
    /\ UNCHANGED <<board, currentPlayer, vPiece, vFrom, vTo, valid, genColor, moves,
                   playerCount, placements, plies, killerMoves, historyTable,
                   recentMoves, mctsRecentMoves, positionHistory, bestProgress,
                   stagnationCount, moveCount, difficulties, bestMove, tree,
                   simulation, searches, won, heap, heapAtCall, simBoard, simMove,
                   simResult, copies, evalColor, evalScore, evalBefore>>
    /\ UNCHANGED probeVars

NextTable == TtStore \/ TtLookup \/ TtClear

SpecTable == InitTable /\ [][NextTable]_vars

----------------------------------------------------------------------------
----------------------------------------------------------------------------
(* Games of two searching players who share the transposition table, as in  *)
(* playGame (ai/__tests__/aiTournament.test.ts), with one piece a side      *)

\* turns of a game
MaxTableTurns == 4

\* the presets that use the table
TablePresets == {d \in Difficulties : AI_DIFFICULTIES[d].useTT}

\* a red and a blue circle on neighbouring columns
TableBoards ==
    {BoardOf({<<4, ry, "circle", "red">>, <<5, by, "circle", "blue">>}) :
        ry \in {2, 5}, by \in {2, 5}}

InitTableGame ==
    /\ NoCalls
    /\ board \in TableBoards
    /\ currentPlayer \in {"red", "blue"}
    /\ playerCount = 2
    /\ moveCount = 0
    /\ positionHistory = EmptyMap
    /\ bestProgress = EmptyMap
    /\ stagnationCount = EmptyMap
    /\ difficulties \in {[c \in Colors |-> IF c = "red" THEN r ELSE o] :
                            r \in TablePresets, o \in TablePresets}
    /\ table = <<>>
    /\ killerMoves = EmptyMap
    /\ historyTable = EmptyMap
    /\ recentMoves = <<>>
    /\ mctsRecentMoves = <<>>
    /\ bestMove = NoMove
    /\ tree = EmptyMap
    /\ simulation = 0
    /\ searches = 0
    /\ placements = <<>>
    /\ plies = 0
    /\ pc = "turn"
    /\ vPiece = NoPiece
    /\ vFrom = Pos(0, 0)
    /\ vTo = Pos(0, 0)
    /\ valid = FALSE
    /\ genColor = "red"
    /\ moves = <<>>

\* one pass of the loop of playGame: getAIMove for the player to move, the
\* move applied, the game ended by a winner, the turn passed
AITurn ==
    /\ UNCHANGED <<won, heap, heapAtCall, simBoard, simMove, simResult, copies,
                   evalColor, evalScore, evalBefore, ttCall, hashCall, orderCall, searchCall,
                   storeVars>>
    /\ pc = "turn"
    /\ plies < MaxTableTurns
    /\ ~GameOver
    /\ \E lastDepth \in (IF aiConfig.useIterativeDeepening THEN 1 .. MaxDepth
                         ELSE {MaxDepth}) :
          \E r \in {getBestMove(board, currentPlayer, aiConfig, caches, recentMoves,
                                 0, lastDepth)} :
              /\ bestMove' = r.move
              /\ table' = r.s.table
              /\ killerMoves' = r.s.killerMoves
              /\ historyTable' = r.s.historyTable
              /\ recentMoves' = r.recentMoves
              /\ ttReads' = r.s.reads
              /\ IF r.move = NoMove
                 THEN /\ pc' = "over"
                      /\ UNCHANGED <<board, currentPlayer, placements, plies>>
                 ELSE LET newBoard == simulateMove(board, r.move)
                          finished == checkWinner(newBoard, <<>>)
                      IN  /\ board' = newBoard
                          /\ plies' = plies + 1
                          /\ placements' = IF finished # NoColor THEN <<finished>>
                                           ELSE placements
                          /\ currentPlayer' = IF finished # NoColor THEN currentPlayer
                                              ELSE IF currentPlayer = "red" THEN "blue"
                                              ELSE "red"
                          /\ pc' = IF finished # NoColor THEN "over" ELSE "turn"
    /\ searches' = searches + 1
    /\ UNCHANGED <<playerCount, difficulties, mctsRecentMoves, tree, simulation,
                   positionHistory, bestProgress, stagnationCount, moveCount,
                   vPiece, vFrom, vTo, valid, genColor, moves>>

NextTableGame == AITurn

SpecTableGame == InitTableGame /\ [][NextTableGame]_vars

----------------------------------------------------------------------------
(* Single mctsSearch calls (ai/mcts.ts) in 2-player positions with few      *)
(* moves, so that the tree grows past the root's children                   *)

\* a red and a blue piece apart from each other
MctsBoards ==
    {BoardOf({<<2, 5, rt, "red">>, <<7, 4, bt, "blue">>}) :
        rt \in PieceTypes, bt \in PieceTypes}

InitMcts ==
    /\ NoCalls
    /\ board \in MctsBoards
    /\ currentPlayer \in {"red", "blue"}
    /\ playerCount = 2
    /\ moveCount = 0
    /\ positionHistory = EmptyMap
    /\ bestProgress = EmptyMap
    /\ stagnationCount = EmptyMap
    /\ difficulties = [c \in Colors |-> "master"]
    /\ table = <<>>
    /\ killerMoves = EmptyMap
    /\ historyTable = EmptyMap
    /\ recentMoves = <<>>
    /\ mctsRecentMoves = <<>>
    /\ bestMove = NoMove
    /\ tree = EmptyMap
    /\ simulation = 0
    /\ searches = 0
    /\ placements = <<>>
    /\ plies = 0
    /\ pc = "turn"
    /\ vPiece = NoPiece
    /\ vFrom = Pos(0, 0)
    /\ vTo = Pos(0, 0)
    /\ valid = FALSE
    /\ genColor = "red"
    /\ moves = <<>>

NextMcts == MctsStart \/ MctsSimulate \/ MctsFinish

SpecMcts == InitMcts /\ [][NextMcts]_vars

----------------------------------------------------------------------------
(* 4-player games of play4PlayerGame (ai/__tests__/fourPlayer.test.ts) in   *)
(* which green, one piece a color, is a step from its goal line             *)

\* turns of a game
MaxFinishTurns == 4

FinishBoards ==
    {BoardOf({<<4, 4, "square", "red">>, <<1, gy, gt, "green">>,
              <<6, 6, "diamond", "blue">>, <<3, 7, "diamond", "yellow">>}) :
        gy \in {2, 5}, gt \in {"circle", "square"}}

\* presets the four colors play with, the same for all
FinishPresets == {"easy", "medium", "challenging"}

InitFinish ==
    /\ NoCalls
    /\ board \in FinishBoards
    /\ currentPlayer = "red"
    /\ playerCount = 4
    /\ moveCount = 0
    /\ positionHistory = EmptyMap
    /\ bestProgress = EmptyMap
    /\ stagnationCount = EmptyMap
    /\ difficulties \in {[c \in Colors |-> d] : d \in FinishPresets}
    /\ table = <<>>
    /\ killerMoves = EmptyMap
    /\ historyTable = EmptyMap
    /\ recentMoves = <<>>
    /\ mctsRecentMoves = <<>>
    /\ bestMove = NoMove
    /\ tree = EmptyMap
    /\ simulation = 0
    /\ searches = 0
    /\ placements = <<>>
    /\ plies = 0
    /\ pc = "turn"
    /\ vPiece = NoPiece
    /\ vFrom = Pos(0, 0)
    /\ vTo = Pos(0, 0)
    /\ valid = FALSE
    /\ genColor = "red"
    /\ moves = <<>>

\* one pass of the loop of play4PlayerGame: getBestMove for the player to
\* move; without a move the turn is skipped, with one it is applied, the
\* position recorded for the next unplaced player, a finished color placed
PlayTurn4P ==
    /\ UNCHANGED <<won, heap, heapAtCall, simBoard, simMove, simResult, copies,
                   evalColor, evalScore, evalBefore, ttCall, hashCall, orderCall, searchCall,
                   storeVars>>
    /\ pc = "turn"
    /\ plies < MaxFinishTurns
    /\ Len(placements) < 3
    /\ \E seed \in (IF aiConfig.randomness > 0 THEN RandomSeeds ELSE {0}) :
          \E r \in {getBestMove(board, currentPlayer, aiConfig, caches, recentMoves,
                                 seed, MaxDepth)} :
              /\ bestMove' = r.move
              /\ table' = r.s.table
              /\ killerMoves' = r.s.killerMoves
              /\ historyTable' = r.s.historyTable
              /\ recentMoves' = r.recentMoves
              /\ ttReads' = r.s.reads
              /\ LET nextPlayer == getNextPlayer4P(currentPlayer, placements)
                 IN  IF r.move = NoMove
                     THEN /\ currentPlayer' = nextPlayer
                          /\ UNCHANGED <<board, placements, plies, positionHistory,
                                         bestProgress, stagnationCount, moveCount>>
                     ELSE LET newBoard == simulateMove(board, r.move)
                              h == recordPosition(history, newBoard, nextPlayer)
                              finished == checkWinner(newBoard, placements)
                          IN  /\ board' = newBoard
                              /\ plies' = plies + 1
                              /\ moveCount' = h.moveCount
                              /\ positionHistory' = h.positionHistory
                              /\ bestProgress' = h.bestProgress
                              /\ stagnationCount' = h.stagnationCount
                              /\ placements' = IF finished # NoColor
                                               THEN Append(placements, finished)
                                               ELSE placements
                              /\ currentPlayer' = nextPlayer
    /\ searches' = searches + 1
    /\ UNCHANGED <<playerCount, difficulties, mctsRecentMoves, tree, simulation, pc,
                   vPiece, vFrom, vTo, valid, genColor, moves>>

NextFinish == PlayTurn4P

SpecFinish == InitFinish /\ [][NextFinish]_vars

----------------------------------------------------------------------------
(* Single calls of orderMoves and orderMovesAdvanced (ai/moveOrdering.ts)   *)
(* with the legal moves of red, who can leap to its goal line               *)

\* the history score a move can have
MaxHistoryScore == 4

\* a red piece on column 4 with a blue piece ahead of it to jump or to leap
\* over, and a red piece aside
OrderBoards ==
    {BoardOf({<<4, 4, rt, "red">>, <<6, 2, "square", "red">>, <<4, by, "square", "blue">>}) :
        rt \in {"circle", "square"}, by \in {5, 7}}

\* the killer lists and the history table of a session in which at most one
\* move has caused cutoffs
OneKiller(b) ==
    {EmptyMap} \cup
    {MapSet(EmptyMap, d, <<m>>) :
        d \in 1 .. MaxDepth, m \in SeqToSet(getAllLegalMoves(b, "red"))}

OneHistory(b) ==
    {EmptyMap} \cup
    {MapSet(EmptyMap, hashMoveStr(m), v) :
        v \in 1 .. MaxHistoryScore, m \in SeqToSet(getAllLegalMoves(b, "red"))}

InitOrder ==
    /\ NoCalls
    /\ board \in OrderBoards
    /\ currentPlayer = "red"
    /\ playerCount = 2
    /\ moveCount = 0
    /\ positionHistory = EmptyMap
    /\ bestProgress = EmptyMap
    /\ stagnationCount = EmptyMap
    /\ difficulties = [c \in Colors |-> "challenging"]
    /\ table = <<>>
    /\ killerMoves \in OneKiller(board)
    /\ historyTable \in IF killerMoves = EmptyMap THEN OneHistory(board) ELSE {EmptyMap}
    /\ recentMoves = <<>>
    /\ mctsRecentMoves = <<>>
    /\ bestMove = NoMove
    /\ tree = EmptyMap
    /\ simulation = 0
    /\ searches = 0
    /\ placements = <<>>
    /\ plies = 0
    /\ pc = "turn"
    /\ vPiece = NoPiece
    /\ vFrom = Pos(0, 0)
    /\ vTo = Pos(0, 0)
    /\ valid = FALSE
    /\ genColor = "red"
    /\ moves = <<>>

\* the variables an ordering call leaves alone
orderFrame ==
    <<board, currentPlayer, vPiece, vFrom, vTo, valid, genColor, moves, playerCount,
      placements, plies, pc, won, heap, heapAtCall, simBoard, simMove, simResult,
      copies, evalColor, evalScore, evalBefore, ttCall, hashCall, ttReads, searchCall, storeVars>>

\* orderMoves(moves, player, hashMove) with a hash move among the moves
OrderMoves ==
    /\ orderCall = NoOrderCall
    /\ \E hashMove \in SeqToSet(getAllLegalMoves(board, currentPlayer)) :
          orderCall' = [hashMove |-> hashMove, depth |-> 0,
                        ordered |-> orderMoves(getAllLegalMoves(board, currentPlayer),
                                               currentPlayer, hashMove)]
    /\ UNCHANGED orderFrame
    /\ UNCHANGED sessionVars

\* orderMovesAdvanced(moves, player, depth, hashMove) with a hash move among
\* the moves
OrderMovesAdvanced ==
    /\ orderCall = NoOrderCall
    /\ \E hashMove \in SeqToSet(getAllLegalMoves(board, currentPlayer)),
          depth \in 1 .. MaxDepth :
          orderCall' = [hashMove |-> hashMove, depth |-> depth,
                        ordered |-> orderMovesAdvanced(
                                        getAllLegalMoves(board, currentPlayer),
                                        currentPlayer, depth, hashMove,
                                        killerMoves, historyTable)]
    /\ UNCHANGED orderFrame
    /\ UNCHANGED sessionVars

NextOrder == OrderMoves \/ OrderMovesAdvanced

SpecOrder == InitOrder /\ [][NextOrder]_vars

(* The game store (store/useGameStore.ts, store/helpers.ts and the slices   *)
(* under store/slices). selectedPos, validMoves and moveHistory only feed    *)
(* the display and are left out.                                            *)

\* gameConfig.players of DEFAULT_2P_CONFIG and DEFAULT_4P_CONFIG
configPlayers(count) == IF count = 4 THEN PLAYER_ORDER_4P ELSE PLAYER_ORDER_2P

\* the loop of getNextPlayer (store/helpers.ts): the first of the next `tries`
\* players after index idx that is not placed, or 0
RECURSIVE nextNotPlaced(_, _, _, _)
nextNotPlaced(players, idx, placed, tries) ==
    IF tries = 0 THEN 0
    ELSE LET n == (idx % Len(players)) + 1
         IN  IF players[n] \notin SeqToSet(placed) THEN n
             ELSE nextNotPlaced(players, n, placed, tries - 1)

\* getNextPlayer(current, config, placements) of store/helpers.ts; indexOf is
\* -1 for a color that does not play, and the scan then starts at the first
getNextPlayerSkipping(current, count, placed) ==
    LET players == configPlayers(count)
        idx == IF current \in SeqToSet(players) THEN IndexOf(players, current) ELSE 0
        n == nextNotPlaced(players, idx, placed, Len(players))
    IN  IF n = 0 THEN current ELSE players[n]

\* isGameOver(placements, playerCount) of utils/winCondition.ts
isGameOver(placed, count) ==
    IF count = 2 THEN Len(placed) >= 1 ELSE Len(placed) >= 3

\* possibleOffsets of getValidJumps
possibleOffsets ==
    <<Pos(0, -2), Pos(0, 2), Pos(-2, 0), Pos(2, 0),
      Pos(-2, -2), Pos(2, -2), Pos(-2, 2), Pos(2, 2)>>

\* getValidJumps(piece, from, board) of utils/jumpValidation.ts
getValidJumps(piece, from, b) ==
    LET target(off) == Pos(from.x + off.x, from.y + off.y)
        isJumpTo(to) ==
            /\ InBoard(to.x, to.y)
            /\ isMoveValid(piece, from, to, b)
            /\ (Abs(to.x - from.x) >= 2 \/ Abs(to.y - from.y) >= 2)
        targets == [i \in 1 .. Len(possibleOffsets) |-> target(possibleOffsets[i])]
    IN  SelectSeq(targets, isJumpTo)

\* the store as one value; fault is set when a handler throws, moved when
\* movePiece has put a piece on another cell
storeState ==
    [board |-> board, currentPlayer |-> currentPlayer, placements |-> placements,
     playerCount |-> playerCount, pendingDisruption |-> pendingDisruption,
     isViewingHistory |-> isViewingHistory, winner |-> gameWinner,
     boardHistory |-> boardHistory, historyIndex |-> historyIndex,
     history |-> history, moved |-> FALSE, fault |-> FALSE]

\* the disruption movePiece offers for the move, or NoDisruption
disruptionOf(b, piece, from, to) ==
    LET dx == Abs(to.x - from.x)
        dy == Abs(to.y - from.y)
        isJump == dx >= 2 \/ dy >= 2
        midX == from.x + ((to.x - from.x) \div 2)
        midY == from.y + ((to.y - from.y) \div 2)
        jumpedPiece == At(b, midX, midY)
        opponentStart == getStartLine(jumpedPiece.color)
        opponentStartRow == IF opponentStart.axis = "y" THEN opponentStart.value ELSE -1
        goalRow == IF opponentStart.axis = "y"
                   THEN (IF opponentStart.value = 0 THEN 9 ELSE 0)
                   ELSE -1
    IN  IF /\ isJump
           /\ piece.type = "circle"
           /\ (dx = 2 \/ dy = 2)
           /\ jumpedPiece # NoPiece
           /\ jumpedPiece.type = "circle"
           /\ jumpedPiece.color # piece.color
           /\ midY # opponentStartRow
           /\ midY # goalRow
        THEN [jumpedCircle |-> jumpedPiece, jumpedFrom |-> Pos(midX, midY),
              targetRow |-> opponentStartRow]
        ELSE NoDisruption

\* the end of movePiece and of executeDisruption: a newly finished color is
\* placed, the turn passes, the position is recorded and added to the history
passTurn(st, newBoard) ==
    LET finishedPlayer == checkWinner(newBoard, st.placements)
        newPlacements == IF finishedPlayer # NoColor
                         THEN Append(st.placements, finishedPlayer)
                         ELSE st.placements
        winner == IF finishedPlayer # NoColor /\ isGameOver(newPlacements, st.playerCount)
                  THEN finishedPlayer ELSE NoColor
        nextPlayer == getNextPlayerSkipping(st.currentPlayer, st.playerCount, newPlacements)
        newHistory == Append(SubSeq(st.boardHistory, 1, st.historyIndex + 1),
                             [board |-> newBoard, currentPlayer |-> nextPlayer])
    IN  [st EXCEPT !.board = newBoard,
                   !.currentPlayer = nextPlayer,
                   !.pendingDisruption = NoDisruption,
                   !.boardHistory = newHistory,
                   !.historyIndex = Len(newHistory) - 1,
                   !.placements = newPlacements,
                   !.winner = winner,
                   !.history = recordPosition(st.history, newBoard, nextPlayer)]

\* movePiece(from, to) of store/slices/moveSlice.ts
movePiece(st, from, to) ==
    LET piece == At(st.board, from.x, from.y)
        isJump == Abs(to.x - from.x) >= 2 \/ Abs(to.y - from.y) >= 2
        disruption == disruptionOf(st.board, piece, from, to)
        newBoard == simulateMove(st.board, [from |-> from, to |-> to])
        furtherJumps == getValidJumps(piece, to, newBoard)
    IN  IF st.pendingDisruption # NoDisruption \/ st.isViewingHistory THEN st
        ELSE IF piece = NoPiece THEN st
        ELSE IF piece.color # st.currentPlayer THEN st
        ELSE IF ~isMoveValid(piece, from, to, st.board) THEN st
        ELSE IF isJump /\ Len(furtherJumps) > 0
        THEN [st EXCEPT !.board = newBoard, !.pendingDisruption = disruption,
                        !.moved = TRUE]
        ELSE IF disruption # NoDisruption
        THEN [st EXCEPT !.board = newBoard, !.pendingDisruption = disruption,
                        !.moved = TRUE]
        ELSE [passTurn(st, newBoard) EXCEPT !.moved = TRUE]

\* finishTurn() of store/slices/moveSlice.ts
finishTurn(st) ==
    [st EXCEPT !.currentPlayer = getNextPlayerSkipping(st.currentPlayer, st.playerCount,
                                                       st.placements),
               !.pendingDisruption = NoDisruption]

\* executeDisruption(targetX) of store/slices/moveSlice.ts; a row index that
\* is not a row of the board makes newBoard[targetRow] undefined, and reading
\* its element throws a TypeError: the store keeps its state
executeDisruption(st, targetX) ==
    LET d == st.pendingDisruption
    IN  IF d = NoDisruption THEN st
        ELSE IF d.targetRow \notin Coords THEN [st EXCEPT !.fault = TRUE]
        ELSE IF At(st.board, targetX, d.targetRow) # NoPiece THEN st
        ELSE passTurn(st, Put(Put(st.board, d.jumpedFrom.x, d.jumpedFrom.y, NoPiece),
                              targetX, d.targetRow, d.jumpedCircle))

\* skipDisruption() of store/slices/moveSlice.ts: getNextPlayer is called
\* without the placements
skipDisruption(st) ==
    IF st.pendingDisruption = NoDisruption THEN st
    ELSE [st EXCEPT !.currentPlayer = getNextPlayerSkipping(st.currentPlayer,
                                                            st.playerCount, <<>>),
                    !.pendingDisruption = NoDisruption]

\* undoMove() of store/slices/historySlice.ts
undoMove(st) ==
    IF st.historyIndex <= 0 THEN st
    ELSE LET entry == st.boardHistory[st.historyIndex]
         IN  [st EXCEPT !.board = entry.board,
                        !.currentPlayer = entry.currentPlayer,
                        !.historyIndex = st.historyIndex - 1,
                        !.isViewingHistory = TRUE]

\* redoMove() of store/slices/historySlice.ts
redoMove(st) ==
    IF st.historyIndex >= Len(st.boardHistory) - 1 THEN st
    ELSE LET newIndex == st.historyIndex + 1
             entry == st.boardHistory[newIndex + 1]
         IN  [st EXCEPT !.board = entry.board,
                        !.currentPlayer = entry.currentPlayer,
                        !.historyIndex = newIndex,
                        !.isViewingHistory = newIndex < Len(st.boardHistory) - 1]

\* what a store action is remembered by: its name and caller, the move it was
\* asked for, whether a piece moved and the turn passed, the moves accepted in
\* the turn so far (chain), the games started so far, and for performAiMove
\* the store it was started in (call)
opRecord(name, by, before, after, from, to, stale, game) ==
    LET piece == At(before.board, from.x, from.y)
        move == [from |-> from, to |-> to, piece |-> piece,
                 isJump |-> Abs(to.x - from.x) >= 2 \/ Abs(to.y - from.y) >= 2]
        earlier == IF lastOp.passed \/ lastOp.replaced THEN <<>> ELSE lastOp.chain
        shown(c) == IF after.moved \/ name = "executeDisruption" THEN c ELSE Pos(0, 0)
    IN  [op |-> name, by |-> by, from |-> shown(from), to |-> shown(to),
         mover |-> IF after.moved THEN piece.color ELSE NoColor,
         moved |-> after.moved,
         passed |-> after.currentPlayer # before.currentPlayer,
         passedFrom |-> before.currentPlayer,
         replaced |-> name \in {"undoMove", "redoMove", "startGame"},
         chain |-> IF after.moved THEN Append(earlier, move) ELSE earlier,
         fault |-> after.fault,
         stale |-> stale,
         changed |-> [after EXCEPT !.moved = FALSE, !.fault = FALSE] # before,
         game |-> game]

\* the App component's effect has a changed dependency when one of
\* currentPlayer, gameConfig, isSetupOpen, isViewingHistory, winner, phase
\* differs after the action
effectDeps ==
    <<currentPlayer, playerCount, playerTypes, difficulties, isSetupOpen,
      isViewingHistory, gameWinner, phase>>

\* the parts of the model the store actions leave alone
storeFrame ==
    <<vPiece, vFrom, vTo, valid, genColor, moves, pc, mctsRecentMoves, bestMove,
      tree, simulation, searches, won, heap, heapAtCall, simBoard, simMove,
      simResult, copies, evalColor, evalScore, evalBefore, ttCall, hashCall,
      ttReads, orderCall, searchCall, setup>>

\* set(...): the store takes the values of `after`
setStore(after) ==
    /\ board' = after.board
    /\ currentPlayer' = after.currentPlayer
    /\ placements' = after.placements
    /\ pendingDisruption' = after.pendingDisruption
    /\ isViewingHistory' = after.isViewingHistory
    /\ gameWinner' = after.winner
    /\ boardHistory' = after.boardHistory
    /\ historyIndex' = after.historyIndex
    /\ moveCount' = after.history.moveCount
    /\ positionHistory' = after.history.positionHistory
    /\ bestProgress' = after.history.bestProgress
    /\ stagnationCount' = after.history.stagnationCount
    /\ plies' = IF after.moved THEN plies + 1 ELSE plies

\* moves applied per run of the store
MaxStoreMoves == 2

\* performAiMove calls in their delay at one time
MaxAiCalls == 1

\* games started with startGame per run
MaxGames == 1

\* positions of a started game that are followed
MaxStartedMoves == 1

\* the configurations startGame is called with
StoreConfigs ==
    {[playerCount |-> 2,
      playerTypes |-> [c \in Colors |-> IF c = "red" THEN "computer" ELSE "human"],
      aiDifficulty |-> [c \in Colors |-> "beginner"]],
     [playerCount |-> 4,
      playerTypes |-> [c \in Colors |-> IF c = "green" THEN "computer" ELSE "human"],
      aiDifficulty |-> [c \in Colors |-> "beginner"]]}

\* a handler of the move and history slices called from the page; a call that
\* returns {} leaves the store as it is and is no step
Handle(name, result, from, to) ==
    /\ \E after \in {result} :
          /\ after # storeState
          /\ setStore(after)
          /\ lastOp' = opRecord(name, "human", storeState, after, from, to, FALSE,
                                lastOp.game)
    /\ UNCHANGED <<playerCount, playerTypes, difficulties, phase, isSetupOpen, aiCalls,
                   table, killerMoves, historyTable, recentMoves>>
    /\ effectDue' = (effectDue \/ effectDeps' # effectDeps)
    /\ UNCHANGED storeFrame

\* a drag or a click on the board: movePiece(from, to) for a piece and a cell
MovePiece ==
    /\ phase = "playing"
    /\ plies < MaxStoreMoves
    /\ lastOp.game > 0 => Len(boardHistory) <= MaxStartedMoves
    /\ \E from \in {c \in Cells : Occupied(board, c.x, c.y)} :
          \E to \in {c \in Cells : isMoveValid(At(board, from.x, from.y), from, c, board)} :
          Handle("movePiece", movePiece(storeState, from, to), from, to)

\* finishTurn() from the page, which ends a turn that movePiece has left open
FinishTurn ==
    /\ phase = "playing"
    /\ lastOp.moved /\ ~lastOp.passed
    /\ Handle("finishTurn", finishTurn(storeState), Pos(0, 0), Pos(0, 0))

ExecuteDisruption ==
    /\ phase = "playing"
    /\ \E targetX \in Coords :
          Handle("executeDisruption", executeDisruption(storeState, targetX),
                 pendingDisruption.jumpedFrom, Pos(targetX, pendingDisruption.targetRow))

SkipDisruption ==
    /\ phase = "playing"
    /\ Handle("skipDisruption", skipDisruption(storeState), Pos(0, 0), Pos(0, 0))

UndoMove ==
    /\ phase = "playing"
    /\ Handle("undoMove", undoMove(storeState), Pos(0, 0), Pos(0, 0))

RedoMove ==
    /\ phase = "playing"
    /\ Handle("redoMove", redoMove(storeState), Pos(0, 0), Pos(0, 0))

\* what performAiMove keeps of the store it was started in
aiCall ==
    [state |-> storeState, phase |-> phase, playerTypes |-> playerTypes,
     difficulty |-> difficulties[currentPlayer], game |-> lastOp.game]

\* the store has changed since the call was started
isStale(call) == call # aiCall

\* the effect of App runs after a render in which a dependency changed, and
\* starts performAiMove for a computer player: the call returns at once for a
\* human or while the history is viewed, passes the turn of a placed color,
\* and otherwise waits for its thinking delay
RunEffect ==
    /\ effectDue
    /\ IF \/ isSetupOpen
          \/ isViewingHistory
          \/ gameWinner # NoColor
          \/ phase # "playing"
          \/ playerTypes[currentPlayer] # "computer"
       THEN /\ effectDue' = FALSE
            /\ UNCHANGED <<board, currentPlayer, placements, plies, pendingDisruption,
                           isViewingHistory, gameWinner, boardHistory, historyIndex,
                           moveCount, positionHistory, bestProgress, stagnationCount,
                           aiCalls, lastOp>>
       ELSE IF currentPlayer \in SeqToSet(placements)
       THEN /\ setStore(finishTurn(storeState))
            /\ lastOp' = opRecord("finishTurn", "computer", storeState,
                                  finishTurn(storeState), Pos(0, 0), Pos(0, 0), FALSE,
                                  lastOp.game)
            /\ effectDue' = (currentPlayer' # currentPlayer)
            /\ UNCHANGED aiCalls
       ELSE /\ Cardinality(aiCalls) < MaxAiCalls
            /\ plies < MaxStoreMoves
            /\ aiCalls' = aiCalls \cup {aiCall}
            /\ effectDue' = FALSE
            /\ UNCHANGED <<board, currentPlayer, placements, plies, pendingDisruption,
                           isViewingHistory, gameWinner, boardHistory, historyIndex,
                           moveCount, positionHistory, bestProgress, stagnationCount,
                           lastOp>>
    /\ UNCHANGED <<playerCount, playerTypes, difficulties, phase, isSetupOpen,
                   table, killerMoves, historyTable, recentMoves>>
    /\ UNCHANGED storeFrame

\* the rest of performAiMove after the delay: the move is chosen for the board
\* and the player of the store the call was started in, movePiece and
\* finishTurn act on the store as it is now
performAiMoveRest(call, move) ==
    LET st == storeState
        tried == movePiece(st, move.from, move.to)
    IN  IF move = NoMove THEN finishTurn(st)
        ELSE IF tried.currentPlayer = call.state.currentPlayer THEN finishTurn(tried)
        ELSE tried

\* a performAiMove call comes back from its delay (presets other than the
\* pure-MCTS one, which getMCTSMove serves)
PerformAiMove ==
    /\ \E call \in aiCalls :
          /\ ~isPureMCTS(AI_DIFFICULTIES[call.difficulty])
          /\ aiCalls' = aiCalls \ {call}
          /\ \E seed \in (IF AI_DIFFICULTIES[call.difficulty].randomness > 0
                          THEN RandomSeeds ELSE {0}) :
                \E r \in {getBestMove(call.state.board, call.state.currentPlayer,
                                     AI_DIFFICULTIES[call.difficulty], caches,
                                     recentMoves, seed, MaxDepth)} :
                    /\ table' = r.s.table
                    /\ killerMoves' = r.s.killerMoves
                    /\ historyTable' = r.s.historyTable
                    /\ recentMoves' = r.recentMoves
                    /\ \E after \in {performAiMoveRest(call, r.move)} :
                          /\ setStore(after)
                          /\ lastOp' = opRecord("performAiMove", "computer", storeState,
                                                after, r.move.from, r.move.to,
                                                isStale(call), lastOp.game)
    /\ UNCHANGED <<playerCount, playerTypes, difficulties, phase, isSetupOpen>>
    /\ effectDue' = (effectDue \/ effectDeps' # effectDeps)
    /\ UNCHANGED storeFrame

\* resetGame() of store/slices/gameSlice.ts: the New Game button
ResetGame ==
    /\ phase = "playing"
    /\ lastOp.game < MaxGames
    /\ phase' = "config"
    /\ setup' = createInitialSetupState
    /\ isSetupOpen' = TRUE
    /\ pendingDisruption' = NoDisruption
    /\ gameWinner' = NoColor
    /\ placements' = <<>>
    /\ boardHistory' = <<>>
    /\ historyIndex' = -1
    /\ isViewingHistory' = FALSE
    /\ lastOp' = [opRecord("resetGame", "human", storeState, storeState, Pos(0, 0),
                           Pos(0, 0), FALSE, lastOp.game) EXCEPT !.changed = TRUE,
                                                                 !.replaced = TRUE]
    /\ effectDue' = TRUE
    /\ UNCHANGED <<board, currentPlayer, plies, playerCount, playerTypes, difficulties,
                   aiCalls, moveCount, positionHistory, bestProgress, stagnationCount,
                   table, killerMoves, historyTable, recentMoves>>
    /\ UNCHANGED <<vPiece, vFrom, vTo, valid, genColor, moves, pc, mctsRecentMoves,
                   bestMove, tree, simulation, searches, won, heap, heapAtCall, simBoard,
                   simMove, simResult, copies, evalColor, evalScore, evalBefore, ttCall,
                   hashCall, ttReads, orderCall, searchCall>>

\* startGame(config) of store/slices/gameSlice.ts, from the configuration
\* dialog
StartStoreGame ==
    /\ isSetupOpen
    /\ \E config \in StoreConfigs :
          /\ playerCount' = config.playerCount
          /\ playerTypes' = config.playerTypes
          /\ difficulties' = config.aiDifficulty
          /\ board' = createInitialBoard(config.playerCount)
          /\ boardHistory' = <<[board |-> createInitialBoard(config.playerCount),
                                currentPlayer |-> configPlayers(config.playerCount)[1]]>>
          /\ currentPlayer' = configPlayers(config.playerCount)[1]
    /\ phase' = "playing"
    /\ setup' = createInitialSetupState
    /\ isSetupOpen' = FALSE
    /\ gameWinner' = NoColor
    /\ placements' = <<>>
    /\ pendingDisruption' = NoDisruption
    /\ historyIndex' = 0
    /\ isViewingHistory' = FALSE
    /\ recentMoves' = <<>>
    /\ killerMoves' = EmptyMap
    /\ historyTable' = EmptyMap
    /\ table' = <<>>
    /\ mctsRecentMoves' = resetMCTSHistory(mctsRecentMoves)
    /\ positionHistory' = EmptyHistory.positionHistory
    /\ bestProgress' = EmptyHistory.bestProgress
    /\ stagnationCount' = EmptyHistory.stagnationCount
    /\ moveCount' = EmptyHistory.moveCount
    /\ lastOp' = [opRecord("startGame", "human", storeState, storeState, Pos(0, 0),
                           Pos(0, 0), FALSE, lastOp.game + 1) EXCEPT !.changed = TRUE]
    /\ effectDue' = TRUE
    /\ UNCHANGED <<plies, aiCalls>>
    /\ UNCHANGED <<vPiece, vFrom, vTo, valid, genColor, moves, pc, bestMove, tree,
                   simulation, searches, won, heap, heapAtCall, simBoard, simMove,
                   simResult, copies, evalColor, evalScore, evalBefore, ttCall,
                   hashCall, ttReads, orderCall, searchCall>>

\* the computer plays color k against people
ComputerPlays(k) == [c \in Colors |-> IF c = k THEN "computer" ELSE "human"]

\* positions of games in progress: a blue square one jump from its goal line
\* (2 players), a red circle next to a blue circle (2 players), and a red
\* circle next to a yellow circle with green and blue behind (4 players)
StoreBoards ==
    {[board |-> BoardOf({<<4, 2, "square", "blue">>, <<4, 1, "square", "red">>}),
      playerCount |-> 2, player |-> "blue", playerTypes |-> ComputerPlays("blue")],
     [board |-> BoardOf({<<4, 4, "circle", "red">>, <<4, 5, "circle", "blue">>}),
      playerCount |-> 2, player |-> "red", playerTypes |-> ComputerPlays("red")],
     [board |-> BoardOf({<<4, 4, "circle", "red">>, <<5, 4, "circle", "yellow">>,
                         <<8, 5, "square", "green">>, <<3, 8, "square", "blue">>}),
      playerCount |-> 4, player |-> "red", playerTypes |-> ComputerPlays("blue")]}

\* a game in progress: the position is the last of the history, the effect
\* of App has not yet run for it
InitStore ==
    /\ \E sc \in StoreBoards :
          /\ board = sc.board
          /\ currentPlayer = sc.player
          /\ playerCount = sc.playerCount
          /\ boardHistory = <<[board |-> sc.board, currentPlayer |-> sc.player]>>
          /\ playerTypes = sc.playerTypes
    /\ difficulties = [c \in Colors |-> "beginner"]
    /\ phase = "playing"
    /\ setup = createInitialSetupState
    /\ isSetupOpen = FALSE
    /\ pendingDisruption = NoDisruption
    /\ isViewingHistory = FALSE
    /\ gameWinner = NoColor
    /\ historyIndex = 0
    /\ aiCalls = {}
    /\ effectDue = TRUE
    /\ lastOp = NoOp
    /\ placements = <<>>
    /\ plies = 0
    /\ moveCount = 0
    /\ positionHistory = EmptyMap
    /\ bestProgress = EmptyMap
    /\ stagnationCount = EmptyMap
    /\ table = <<>>
    /\ killerMoves = EmptyMap
    /\ historyTable = EmptyMap
    /\ recentMoves = <<>>
    /\ mctsRecentMoves = <<>>
    /\ bestMove = NoMove
    /\ tree = EmptyMap
    /\ simulation = 0
    /\ searches = 0
    /\ pc = "turn"
    /\ vPiece = NoPiece
    /\ vFrom = Pos(0, 0)
    /\ vTo = Pos(0, 0)
    /\ valid = FALSE
    /\ genColor = "red"
    /\ moves = <<>>
    /\ won = "none"
    /\ heap = <<>>
    /\ heapAtCall = <<>>
    /\ simBoard = 0
    /\ simMove = [from |-> Pos(0, 0), to |-> Pos(0, 0)]
    /\ simResult = 0
    /\ copies = 0
    /\ evalColor = "red"
    /\ evalScore = 0
    /\ evalBefore = 0
    /\ ttCall = NoTtCall
    /\ hashCall = NoHashCall
    /\ ttReads = {}
    /\ orderCall = NoOrderCall
    /\ searchCall = NoSearchCall

NextStore ==
    \/ MovePiece
    \/ FinishTurn
    \/ ExecuteDisruption
    \/ SkipDisruption
    \/ UndoMove
    \/ RedoMove
    \/ RunEffect
    \/ PerformAiMove
    \/ ResetGame
    \/ StartStoreGame

SpecStore == InitStore /\ [][NextStore]_vars

----------------------------------------------------------------------------
(* Single calls of computeHash (ai/transpositionTable.ts) on boards that    *)
(* are changed by moves, reverse moves and new piece ids                    *)

\* moves applied and not yet reversed
MaxHashMoves == 1

\* the board with other ids on its pieces
Relabelled(b) ==
    [y \in Coords |-> [x \in Coords |->
        IF Occupied(b, x, y)
        THEN createPiece(b[y][x].type, b[y][x].color, 3 - b[y][x].id[3])
        ELSE NoPiece]]

InitHash ==
    /\ NoCalls
    /\ board \in {RaceBoard, FourBoard}
    /\ currentPlayer \in Colors
    /\ playerCount = detectPlayerCount(board)
    /\ placements = <<>>
    /\ plies = 0
    /\ pc = "input"
    /\ vPiece = NoPiece
    /\ vFrom = Pos(0, 0)
    /\ vTo = Pos(0, 0)
    /\ valid = FALSE
    /\ genColor = "red"
    /\ moves = <<>>
    /\ FreshSession

\* the first calls: computeHash(board, player) for every side to move
FirstHashes ==
    /\ pc = "input"
    /\ hashCall' = [hashCall EXCEPT
                       !.first = [c \in Colors |-> HashRecord(board, c)],
                       !.last = HashRecord(board, currentPlayer)]
    /\ pc' = "hashed"
    /\ UNCHANGED <<board, currentPlayer, vPiece, vFrom, vTo, valid, genColor, moves,
                   playerCount, placements, plies, won, heap, heapAtCall, simBoard,
                   simMove, simResult, copies, evalColor, evalScore, evalBefore, ttCall,
                   ttReads, orderCall, searchCall, storeVars>>
    /\ UNCHANGED sessionVars

\* one later call computeHash(board, player)
ComputeHash ==
    /\ pc # "input"
    /\ \E player \in Colors :
          hashCall' = [hashCall EXCEPT !.last = HashRecord(board, player)]
    /\ pc' = "hashed"
    /\ UNCHANGED <<board, currentPlayer, vPiece, vFrom, vTo, valid, genColor, moves,
                   playerCount, placements, plies, won, heap, heapAtCall, simBoard,
                   simMove, simResult, copies, evalColor, evalScore, evalBefore, ttCall,
                   ttReads, orderCall, searchCall, storeVars>>
    /\ UNCHANGED sessionVars

\* a move of the color is applied to the board
ApplyMove ==
    /\ pc # "input"
    /\ Len(hashCall.applied) < MaxHashMoves
    /\ \E m \in SeqToSet(getAllLegalMoves(board, currentPlayer)) :
          /\ board' = simulateMove(board, m)
          /\ hashCall' = [hashCall EXCEPT !.applied = Append(@, m), !.last = NoHashRecord]
    /\ pc' = "moved"
    /\ UNCHANGED <<currentPlayer, vPiece, vFrom, vTo, valid, genColor, moves,
                   playerCount, placements, plies, won, heap, heapAtCall, simBoard,
                   simMove, simResult, copies, evalColor, evalScore, evalBefore, ttCall,
                   ttReads, orderCall, searchCall, storeVars>>
    /\ UNCHANGED sessionVars

\* the reverse of the last move is applied to the board
ReverseMove ==
    /\ pc # "input"
    /\ hashCall.applied # <<>>
    /\ LET m == hashCall.applied[Len(hashCall.applied)]
       IN  /\ board' = simulateMove(board, Move(m.to, m.from, m.piece))
           /\ hashCall' = [hashCall EXCEPT
                              !.applied = SubSeq(@, 1, Len(@) - 1),
                              !.undone = TRUE,
                              !.last = NoHashRecord]
    /\ pc' = "moved"
    /\ UNCHANGED <<currentPlayer, vPiece, vFrom, vTo, valid, genColor, moves,
                   playerCount, placements, plies, won, heap, heapAtCall, simBoard,
                   simMove, simResult, copies, evalColor, evalScore, evalBefore, ttCall,
                   ttReads, orderCall, searchCall, storeVars>>
    /\ UNCHANGED sessionVars

\* the pieces are replaced by pieces of the same type and color with other ids
RelabelPieces ==
    /\ pc # "input"
    /\ board' = Relabelled(board)
    /\ hashCall' = [hashCall EXCEPT !.relabelled = ~@, !.last = NoHashRecord]
    /\ pc' = "moved"
    /\ UNCHANGED <<currentPlayer, vPiece, vFrom, vTo, valid, genColor, moves,
                   playerCount, placements, plies, won, heap, heapAtCall, simBoard,
                   simMove, simResult, copies, evalColor, evalScore, evalBefore, ttCall,
                   ttReads, orderCall, searchCall, storeVars>>
    /\ UNCHANGED sessionVars

NextHash == FirstHashes \/ ComputeHash \/ ApplyMove \/ ReverseMove \/ RelabelPieces

SpecHash == InitHash /\ [][NextHash]_vars

----------------------------------------------------------------------------
(* Single calls of checkWinner (utils/winCondition.ts) on small boards      *)

\* longest placements list of the inputs
MaxPlaced == 2

\* per color: two cells of its goal line and a cell off it
Lanes ==
    [red    |-> <<Pos(3, 9), Pos(4, 9), Pos(3, 5)>>,
     blue   |-> <<Pos(5, 0), Pos(6, 0), Pos(5, 4)>>,
     yellow |-> <<Pos(9, 2), Pos(9, 3), Pos(7, 2)>>,
     green  |-> <<Pos(0, 6), Pos(0, 7), Pos(2, 6)>>]

\* the pieces a color can have: none, one or two on the goal line, one off
\* it, one on and one off
LaneChoices == {{}, {1}, {3}, {1, 2}, {1, 3}}

\* the board with, for each color, squares on the chosen cells of its lane
LaneBoard(choice) ==
    [y \in Coords |-> [x \in Coords |->
        IF \E c \in Colors : \E k \in choice[c] : Lanes[c][k] = Pos(x, y)
        THEN createPiece("square",
                         CHOOSE c \in Colors : \E k \in choice[c] : Lanes[c][k] = Pos(x, y),
                         1)
        ELSE NoPiece]]

\* lists of distinct colors
PlacementLists ==
    {p \in UNION {[1 .. n -> Colors] : n \in 0 .. MaxPlaced} :
        \A i, j \in 1 .. Len(p) : i # j => p[i] # p[j]}

InitWinner ==
    /\ NoCalls
    /\ \E choice \in [Colors -> LaneChoices] : board = LaneBoard(choice)
    /\ placements \in PlacementLists
    /\ currentPlayer = "red"
    /\ playerCount = 4
    /\ plies = 0
    /\ pc = "input"
    /\ vPiece = NoPiece
    /\ vFrom = Pos(0, 0)
    /\ vTo = Pos(0, 0)
    /\ valid = FALSE
    /\ genColor = "red"
    /\ moves = <<>>
    /\ FreshSession

\* one call checkWinner(board, placements)
CheckWinner ==
    /\ pc = "input"
    /\ UNCHANGED <<heap, heapAtCall, simBoard, simMove, simResult, copies, evalColor,
                   evalScore, evalBefore>>
    /\ won' = checkWinner(board, placements)
    /\ pc' = "won"
    /\ UNCHANGED <<board, currentPlayer, vPiece, vFrom, vTo, valid, genColor, moves,
                   playerCount, placements, plies>>
    /\ UNCHANGED <<sessionVars, ttCall>>
    /\ UNCHANGED probeVars

NextWinner == CheckWinner

SpecWinner == InitWinner /\ [][NextWinner]_vars

----------------------------------------------------------------------------
(* simulateMove (ai/minimax.ts) on arrays in memory: a board is an array of *)
(* ten row arrays, an array is an object of the heap, and a write changes   *)
(* the object it is made to                                                 *)

\* simulateMove calls per run
MaxCopies == 2

\* the board an object number stands for
Deref(h, ref) == [y \in Coords |-> h[h[ref][y]]]

\* the heap holding the board b alone: its rows, then the array of them
HeapOf(b) ==
    [i \in 1 .. (BOARD_SIZE + 1) |->
        IF i <= BOARD_SIZE THEN b[i - 1] ELSE [y \in Coords |-> y + 1]]

\* object number of the board in HeapOf(b)
InputRef == BOARD_SIZE + 1

\* variant: [...board], a new array of the same rows
copyRowsShallow(h, ref) ==
    [heap |-> Append(h, h[ref]), ref |-> Len(h) + 1]

\* board.map(row => [...row]): a new array of new rows
copyRows(h, ref) ==
    LET n == Len(h)
        rows == [i \in 1 .. BOARD_SIZE |-> h[h[ref][i - 1]]]
    IN  [heap |-> Append(h \o rows, [y \in Coords |-> n + 1 + y]),
         ref |-> n + BOARD_SIZE + 1]

\* the heap after simulateMove(board, move) and the board it returns
simulateMoveOn(h, ref, move) ==
    LET c == copyRows(h, ref)
        newBoard == c.ref
        p == c.heap[c.heap[newBoard][move.from.y]][move.from.x]
        write(hp, x, y, v) == [hp EXCEPT ![hp[newBoard][y]] = [@ EXCEPT ![x] = v]]
    IN  IF p # NoPiece
        THEN [heap |-> write(write(c.heap, move.to.x, move.to.y, p),
                             move.from.x, move.from.y, NoPiece),
              ref |-> newBoard]
        ELSE c

\* cells the moves of the inputs go from and to: with and without a piece
CopyCells ==
    {Pos(4, 6), Pos(4, 7), Pos(4, 4), Pos(0, 0), Pos(5, 5), Pos(9, 9), Pos(3, 4)}

InitCopy ==
    /\ board \in {RaceBoard, FourBoard, createInitialBoard(2)}
    /\ heap = HeapOf(board)
    /\ heapAtCall = heap
    /\ simBoard = 0
    /\ simMove = [from |-> Pos(0, 0), to |-> Pos(0, 0)]
    /\ simResult = 0
    /\ copies = 0
    /\ won = NoColor
    /\ evalColor = "red"
    /\ evalScore = 0
    /\ evalBefore = 0
    /\ ttCall = NoTtCall
    /\ NoProbes
    /\ currentPlayer = "red"
    /\ playerCount = 2
    /\ placements = <<>>
    /\ plies = 0
    /\ pc = "input"
    /\ vPiece = NoPiece
    /\ vFrom = Pos(0, 0)
    /\ vTo = Pos(0, 0)
    /\ valid = FALSE
    /\ genColor = "red"
    /\ moves = <<>>
    /\ FreshSession

\* one call simulateMove(b, move), b the input board or the board the last
\* call returned
SimulateMove ==
    /\ pc \in {"input", "simulated"}
    /\ copies < MaxCopies
    /\ \E ref \in {InputRef, simResult} \ {0}, from \in CopyCells, to \in CopyCells :
          /\ from # to
          /\ simBoard' = ref
          /\ simMove' = [from |-> from, to |-> to]
          /\ \E r \in {simulateMoveOn(heap, ref, [from |-> from, to |-> to])} :
                /\ heap' = r.heap
                /\ simResult' = r.ref
    /\ heapAtCall' = heap
    /\ copies' = copies + 1
    /\ pc' = "simulated"
    /\ UNCHANGED <<board, currentPlayer, vPiece, vFrom, vTo, valid, genColor, moves,
                   playerCount, placements, plies, won, evalColor, evalScore,
                   evalBefore>>
    /\ UNCHANGED <<sessionVars, ttCall>>
    /\ UNCHANGED probeVars

NextCopy == SimulateMove

SpecCopy == InitCopy /\ [][NextCopy]_vars

----------------------------------------------------------------------------
(* Single calls of evaluateBoard (ai/evaluator.ts) at several points of a   *)
(* session                                                                  *)

\* the history h after the first k plies of a round of the long game
RECURSIVE recordFirst(_, _)
recordFirst(h, k) ==
    IF k = 0 THEN h
    ELSE recordPosition(recordFirst(h, k - 1), ShuffleBoard(k),
                        PLAYER_ORDER_4P[(k % 4) + 1])

\* the history of a game after n plies: the move counter is then n + 1
GameHistory(n) ==
    recordFirst(recordRounds(recordPosition(EmptyHistory, FourBoard, "red"),
                             n \div Len(ShuffleMoves)),
                n % Len(ShuffleMoves))

\* plies after which evaluateBoard is called: on both sides of move 50 and
\* late in the game
EvalPlies == {0, 49, 50, 120, 250}

EvalBoards ==
    {LaneBoard(choice) : choice \in [Colors -> LaneChoices]}
        \cup {createInitialBoard(2), createInitialBoard(4)}

InitEval ==
    /\ \E n \in EvalPlies : \E h \in {GameHistory(n)} :
          /\ moveCount = h.moveCount
          /\ positionHistory = h.positionHistory
          /\ bestProgress = h.bestProgress
          /\ stagnationCount = h.stagnationCount
    /\ board \in EvalBoards
    /\ evalColor \in Colors
    /\ evalScore = 0
    /\ evalBefore = 0
    /\ ttCall = NoTtCall
    /\ NoProbes
    /\ won = NoColor
    /\ heap = <<>>
    /\ heapAtCall = <<>>
    /\ simBoard = 0
    /\ simMove = [from |-> Pos(0, 0), to |-> Pos(0, 0)]
    /\ simResult = 0
    /\ copies = 0
    /\ table = <<>>
    /\ killerMoves = EmptyMap
    /\ historyTable = EmptyMap
    /\ recentMoves = <<>>
    /\ mctsRecentMoves = <<>>
    /\ difficulties = [c \in Colors |-> "medium"]
    /\ bestMove = NoMove
    /\ tree = EmptyMap
    /\ simulation = 0
    /\ searches = 0
    /\ currentPlayer = "red"
    /\ playerCount = detectPlayerCount(board)
    /\ placements = <<>>
    /\ plies = 0
    /\ pc = "input"
    /\ vPiece = NoPiece
    /\ vFrom = Pos(0, 0)
    /\ vTo = Pos(0, 0)
    /\ valid = FALSE
    /\ genColor = "red"
    /\ moves = <<>>

\* one call evaluateBoard(board, evalColor)
Evaluate ==
    /\ pc = "input"
    /\ evalScore' = evaluateBoard(board, evalColor)
    /\ pc' = "evaluated"
    /\ UNCHANGED <<board, currentPlayer, vPiece, vFrom, vTo, valid, genColor, moves,
                   playerCount, placements, plies, won, heap, heapAtCall, simBoard,
                   simMove, simResult, copies, evalColor, evalBefore>>
    /\ UNCHANGED <<sessionVars, ttCall>>
    /\ UNCHANGED probeVars

\* the cell one step closer to the goal line of the color
CloserCell(color, c) ==
    IF getGoalLine(color).axis = "y"
    THEN Pos(c.x, c.y + Sign(getGoalLine(color).value - c.y))
    ELSE Pos(c.x + Sign(getGoalLine(color).value - c.x), c.y)

\* a piece of evalColor is put one cell closer to its goal line, every other
\* cell stays, and evaluateBoard is called again
Advance ==
    /\ pc = "evaluated"
    /\ \E c \in Cells :
          /\ board[c.y][c.x].color = evalColor
          /\ distToGoal(evalColor, c.x, c.y) > 0
          /\ ~Occupied(board, CloserCell(evalColor, c).x, CloserCell(evalColor, c).y)
          /\ board' = simulateMove(board, Move(c, CloserCell(evalColor, c), board[c.y][c.x]))
    /\ evalBefore' = evalScore
    /\ evalScore' = evaluateBoard(board', evalColor)
    /\ pc' = "advanced"
    /\ UNCHANGED <<currentPlayer, vPiece, vFrom, vTo, valid, genColor, moves,
                   playerCount, placements, plies, won, heap, heapAtCall, simBoard,
                   simMove, simResult, copies, evalColor>>
    /\ UNCHANGED <<sessionVars, ttCall>>
    /\ UNCHANGED probeVars

NextEval == Evaluate \/ Advance

SpecEval == InitEval /\ [][NextEval]_vars

----------------------------------------------------------------------------
(* Inputs of the validator checks                                           *)

\* origins: the corners, cells on each edge (every starting line and goal
\* line) and interior cells with room for leaps in every direction
FromCoords == {0, 4, 5, 9}

FromCells == {Pos(x, y) : x \in FromCoords, y \in FromCoords}

\* destinations: the board and the ring of cells just outside it
ToCells == {Pos(x, y) : x \in -1 .. BOARD_SIZE, y \in -1 .. BOARD_SIZE}

MaxObstacles == 2

OnLine(from, to) ==
    LET dx == to.x - from.x
        dy == to.y - from.y
    IN  (dx # 0 \/ dy # 0) /\ (dx = 0 \/ dy = 0 \/ Abs(dx) = Abs(dy))

\* the cells strictly between from and to, and to itself, when on one line
PathCells(from, to) ==
    IF ~OnLine(from, to) THEN {}
    ELSE LET total == Max(Abs(to.x - from.x), Abs(to.y - from.y))
         IN  {c \in Cells : \E step \in 1 .. total :
                 /\ c.x = from.x + Sign(to.x - from.x) * step
                 /\ c.y = from.y + Sign(to.y - from.y) * step}

RECURSIVE PlaceAll(_, _, _)
PlaceAll(b, cs, p) ==
    IF cs = {} THEN b
    ELSE LET c == CHOOSE c \in cs : TRUE
         IN  PlaceAll(Put(b, c.x, c.y, p), cs \ {c}, p)

OtherColor(color) == IF color = "red" THEN "blue" ELSE "red"

InitValidate ==
    /\ NoCalls
    /\ vFrom \in FromCells
    /\ vTo \in ToCells
    /\ \E type \in PieceTypes, color \in Colors :
          vPiece = createPiece(type, color, 1)
    /\ \E obs \in SUBSET PathCells(vFrom, vTo),
          obsColor \in {vPiece.color, OtherColor(vPiece.color)} :
          /\ Cardinality(obs) <= MaxObstacles
          /\ (obs = {} => obsColor = vPiece.color)
          /\ board = PlaceAll(Put(EmptyBoard, vFrom.x, vFrom.y, vPiece), obs,
                              createPiece("circle", obsColor, 2))
    /\ currentPlayer = vPiece.color
    /\ valid = FALSE
    /\ genColor = vPiece.color
    /\ moves = <<>>
    /\ playerCount = 2
    /\ placements = <<>>
    /\ plies = 0
    /\ pc = "input"
    /\ FreshSession

\* one call isMoveValid(vPiece, vFrom, vTo, board)
Validate ==
    /\ UNCHANGED callVars
    /\ pc = "input"
    /\ valid' = isMoveValid(vPiece, vFrom, vTo, board)
    /\ pc' = "validated"
    /\ UNCHANGED <<board, currentPlayer, vPiece, vFrom, vTo, genColor, moves,
                   playerCount, placements, plies>>
    /\ UNCHANGED sessionVars

NextValidate == Validate

SpecValidate == InitValidate /\ [][NextValidate]_vars

----------------------------------------------------------------------------
(* Vocabulary of the movement rules (docs/rules.md, section 3)              *)

Dx == vTo.x - vFrom.x

Dy == vTo.y - vFrom.y

Dist == Max(Abs(Dx), Abs(Dy))

OnOwnStartLine(color, pos) ==
    CASE color = "red" -> pos.y = 0
      [] color = "blue" -> pos.y = 9
      [] color = "yellow" -> pos.x = 0
      [] color = "green" -> pos.x = 9

\* component of (dx, dy) along the color's forward direction, and across it
ForwardPart(color, dx, dy) ==
    dx * getForwardDirection(color).dx + dy * getForwardDirection(color).dy

SidePart(color, dx, dy) ==
    dx * getForwardDirection(color).dy + dy * getForwardDirection(color).dx

Orthogonal(dx, dy) == (dx = 0 /\ dy # 0) \/ (dy = 0 /\ dx # 0)

Diagonal(dx, dy) == Abs(dx) = Abs(dy) /\ dx # 0

\* diagonally forward or straight backward, at any distance
TriangleDirection(color, dx, dy) ==
    \/ (ForwardPart(color, dx, dy) > 0 /\ Diagonal(dx, dy))
    \/ (ForwardPart(color, dx, dy) < 0 /\ SidePart(color, dx, dy) = 0)

LineAllowed(piece, dx, dy) ==
    CASE piece.type = "square" -> Orthogonal(dx, dy)
      [] piece.type = "diamond" -> Diagonal(dx, dy)
      [] piece.type = "circle" -> Orthogonal(dx, dy) \/ Diagonal(dx, dy)
      [] piece.type = "triangle" -> TriangleDirection(piece.color, dx, dy)

Validated == pc = "validated"

EmptyTarget == InBoard(vTo.x, vTo.y) /\ ~Occupied(board, vTo.x, vTo.y)

StepCell(k) == Pos(vFrom.x + Sign(Dx) * k, vFrom.y + Sign(Dy) * k)

StepOccupied(k) == Occupied(board, StepCell(k).x, StepCell(k).y)

\* obstacle exactly in the middle of the path, every other inner cell empty
LeapPattern ==
    /\ Dist % 2 = 1
    /\ \A k \in 1 .. (Dist - 1) : StepOccupied(k) <=> (k = (Dist - 1) \div 2 + 1)

----------------------------------------------------------------------------
(* Properties of the move validator                                         *)

\* C4: a triangle of any of the four colors jumps (distance 2) or leaps (odd
\* distance >= 3) exactly in the directions of its step rule: when the
\* destination is empty and the obstacle pattern is met, the move is accepted
\* if and only if it goes diagonally forward or straight backward relative to
\* the color's forward direction.
C4_TriangleJumpDirections ==
    (/\ Validated
     /\ vPiece.type = "triangle"
     /\ EmptyTarget
     /\ OnLine(vFrom, vTo)
     /\ \/ (Dist = 2 /\ StepOccupied(1))
        \/ (Dist >= 3 /\ LeapPattern))
    => (valid <=> TriangleDirection(vPiece.color, Dx, Dy))

C6_JumpRule ==
    (/\ Validated
     /\ EmptyTarget
     /\ OnLine(vFrom, vTo)
     /\ Dist = 2)
    => (valid <=> (LineAllowed(vPiece, Dx, Dy) /\ StepOccupied(1)))

\* C7: a straight-line move of length d >= 3 along a line allowed for the
\* piece type, to an empty cell, is valid if and only if d is odd, the middle
\* cell is occupied and every other inner cell is empty; every move of even
\* length >= 4 is invalid.
C7_LeapRule ==
    /\ (/\ Validated
        /\ EmptyTarget
        /\ OnLine(vFrom, vTo)
        /\ Dist >= 3
        /\ LineAllowed(vPiece, Dx, Dy))
       => (valid <=> LeapPattern)
    /\ (Validated /\ OnLine(vFrom, vTo) /\ Dist >= 4 /\ Dist % 2 = 0) => ~valid

\* a one-cell move across the color's forward direction
SidewaysStep ==
    Dist = 1 /\ ForwardPart(vPiece.color, Dx, Dy) = 0

C9_BasicRejections ==
    (/\ Validated
     /\ \/ vTo = vFrom
        \/ ~InBoard(vTo.x, vTo.y)
        \/ Occupied(board, vTo.x, vTo.y))
    => ~valid

C9_Witness ==
    /\ Validated
    /\ vPiece.type = "circle"
    /\ Dist = 1
    /\ Occupied(board, vTo.x, vTo.y)
    /\ ~valid

----------------------------------------------------------------------------
(* Properties of the move generator and of the game loop                    *)

\* the moves the validator accepts for the color on the current board
AcceptedMoves(color) ==
    {Move(from, to, board[from.y][from.x]) :
        <<from, to>> \in {ft \in {c \in Cells : board[c.y][c.x].color = color} \X Cells :
                             /\ ~Occupied(board, ft[2].x, ft[2].y)
                             /\ isMoveValid(board[ft[1].y][ft[1].x], ft[1], ft[2], board)}}

\* C3: getAllLegalMoves(board, color) returns exactly the moves (from, to)
\* with a piece of that color at from, an empty on-board cell at to and
\* isMoveValid true, each exactly once.
C3_GeneratorExact ==
    pc = "generated" =>
        /\ SeqToSet(moves) = AcceptedMoves(genColor)
        /\ \A i, j \in 1 .. Len(moves) : i # j => moves[i] # moves[j]

\* a generated list that holds a jump over a piece next to the origin
C3_Witness ==
    /\ pc = "generated"
    /\ SeqToSet(moves) = AcceptedMoves(genColor)
    /\ \E i \in 1 .. Len(moves) :
          Max(Abs(moves[i].to.x - moves[i].from.x),
              Abs(moves[i].to.y - moves[i].from.y)) = 2

Corners == {Pos(0, 0), Pos(9, 0), Pos(0, 9), Pos(9, 9)}

\* C10: in every state reached from an initial board by moves isMoveValid
\* accepts, the four corner cells are empty.
C10_CornersEmpty ==
    \A c \in Corners : ~Occupied(board, c.x, c.y)

----------------------------------------------------------------------------
(* Properties of getBestMove                                                *)

\* C1: for every board, color and preset, and whatever the session caches
\* hold, a move returned by getBestMove is one of the legal moves of the color
\* on the input board: its origin holds a piece of that color and isMoveValid
\* accepts it.
C1_ReturnedMoveLegal ==
    pc = "returned" => (bestMove = NoMove \/ bestMove \in AcceptedMoves(currentPlayer))

\* a legal move returned by a second search of one position, made with the
\* table entry, the killers and the buffer the first search left
C1_Witness ==
    /\ pc = "returned"
    /\ searches = 2
    /\ plies = 0
    /\ aiConfig.useTT
    /\ \E i \in 1 .. Len(table) :
          /\ table[i].key = computeHash(board, currentPlayer)
          /\ table[i].bestMove = bestMove
    /\ \E d \in DOMAIN killerMoves : killerMoves[d] # <<>>
    /\ Len(recentMoves) = 2
    /\ bestMove \in AcceptedMoves(currentPlayer)

\* C2: getBestMove returns null when the color has no legal move, and for
\* every preset only then: with a legal move it returns a move.
C2_NullOnlyWithoutMoves ==
    pc = "returned" => ((bestMove = NoMove) <=> (AcceptedMoves(currentPlayer) = {}))

----------------------------------------------------------------------------
(* Properties of the win condition                                          *)

\* the goal lines as the rules give them
OnGoalLine(color, pos) ==
    \/ color = "red" /\ pos.y = 9
    \/ color = "blue" /\ pos.y = 0
    \/ color = "yellow" /\ pos.x = 9
    \/ color = "green" /\ pos.x = 0

\* the color has a piece on the board and all its pieces are on its goal line
Finished(b, color) ==
    /\ \E c \in Cells : b[c.y][c.x].color = color
    /\ \A c \in Cells : b[c.y][c.x].color = color => OnGoalLine(color, c)

----------------------------------------------------------------------------
(* Properties of simulateMove                                               *)

----------------------------------------------------------------------------
(* Properties of the session caches                                         *)

\* C13: after resetAIHistory(), whatever searches, recordPosition calls and
\* games came before, every session cache is in its initial state: the
\* transposition table, the killer lists and the history table are empty, both
\* anti-oscillation buffers are empty, every position count is 0, the
\* best-progress and stagnation maps are empty and the move counter is 0.
\* getBestMove and evaluateBoard read nothing else of the session, so what
\* they return later does not depend on what happened before the reset.
C13_ResetClearsCaches ==
    pc = "reset" =>
        /\ table = <<>>
        /\ killerMoves = EmptyMap
        /\ historyTable = EmptyMap
        /\ recentMoves = <<>>
        /\ mctsRecentMoves = <<>>
        /\ DOMAIN positionHistory = {}
        /\ DOMAIN bestProgress = {}
        /\ DOMAIN stagnationCount = {}
        /\ moveCount = 0

\* a reset after a pure-MCTS search, a recorded move and a search with the
\* transposition table
C13_Witness ==
    /\ pc = "reset"
    /\ searches = 2
    /\ plies = 1
    /\ playerCount = 2
    /\ difficulties["red"] = "master"
    /\ AI_DIFFICULTIES[difficulties["blue"]].useTT
    /\ bestMove # NoMove

----------------------------------------------------------------------------
(* Properties of evaluateBoard                                              *)

\* C14: evaluateBoard on the freshly-initialized 2-player board returns 0 for
\* red and for blue, at whatever point of a session the call is made (for
\* every value of the move counter).
C14_InitialBoardZero ==
    (pc = "evaluated" /\ board = createInitialBoard(2) /\ evalColor \in {"red", "blue"})
        => evalScore = 0

\* pieces of the color on its goal line
AtGoalCount(b, color) ==
    Cardinality({c \in Cells : b[c.y][c.x].color = color /\ OnGoalLine(color, c)})

\* goal-line pieces by which the color trails its best-progressed opponent;
\* 0 when no single opponent has more
TrailsBy(b, color) ==
    LET trails == {AtGoalCount(b, o) - AtGoalCount(b, color) : o \in Colors \ {color}}
    IN  CHOOSE t \in trails \cup {0} : \A u \in trails \cup {0} : t >= u

\* C15: for every board and each color c, putting one piece of c one cell
\* closer to c's goal line while every other cell stays the same strictly
\* increases evaluateBoard(board, c), the move counter being the same.
C15_AdvanceIncreases ==
    pc = "advanced" => evalScore > evalBefore

\* C16: on a board nobody has won, once the move counter exceeds 50
\* evaluateBoard subtracts a penalty proportional to the number of goal-line
\* pieces by which the color trails its best-progressed opponent, nothing
\* when it trails no opponent, and nothing at move 50 or earlier.
C16_FallingBehind ==
    (pc = "evaluated" /\ checkWinner(board, <<>>) = NoColor) =>
        LET penalty == heuristicScore(board, evalColor) - evalScore
        IN  /\ moveCount <= 50 => penalty = 0
            /\ TrailsBy(board, evalColor) = 0 => penalty = 0
            /\ moveCount > 50 =>
                  penalty = 500 * progressMultiplier * TrailsBy(board, evalColor)

----------------------------------------------------------------------------
(* Properties of the position history                                       *)

\* a move has been applied and the position recorded
MoveRecorded == pc = "returned" /\ plies' = plies + 1

\* C17: the recordPosition(board, nextToMove) made after a move updates the
\* best total distance and the stagnation counter of the color that made the
\* move: the counter becomes 0 when that color's total distance is below its
\* best so far and is incremented otherwise, in 2-player and 4-player games.
C17_StagnationOfMover ==
    [][MoveRecorded =>
          LET mover == currentPlayer
              dist == calculateTotalDistance(board', mover)
              improved == mover \notin DOMAIN bestProgress \/ dist < bestProgress[mover]
          IN  /\ mover \in DOMAIN stagnationCount'
              /\ stagnationCount'[mover] =
                    IF improved THEN 0 ELSE MapGet(stagnationCount, mover, 0) + 1
              /\ mover \in DOMAIN bestProgress'
              /\ bestProgress'[mover] = IF improved THEN dist ELSE bestProgress[mover]]_vars

----------------------------------------------------------------------------
(* Properties of the beginner preset                                        *)

\* the legal moves of the color to move that lead to a position (the board
\* after the move, the next color to move) recorded fewer than 2 times
FreshMoves ==
    {m \in AcceptedMoves(currentPlayer) :
        MapGet(positionHistory,
               computeHash(simulateMove(board, m),
                           nextInTurn(currentPlayer, placements)), 0) < 2}

\* the moves the beginner may return: the fresh ones, or every legal move
\* when none is fresh
EligibleMoves ==
    IF FreshMoves # {} THEN FreshMoves ELSE AcceptedMoves(currentPlayer)

BeginnerToMove ==
    AI_DIFFICULTIES[difficulties[currentPlayer]].depth = 0
        /\ ~AI_DIFFICULTIES[difficulties[currentPlayer]].useMCTS

Stored(t, hash) == IF ttIndex(t, hash) = 0 THEN NoEntry ELSE t[ttIndex(t, hash)]

\* ttLookup returned the entry stored under the key when its depth is at
\* least the depth asked for, and a miss otherwise
LookupUsable ==
    pc = "lookedUp" =>
        ttCall.result = IF Stored(table, ttCall.hash).depth >= ttCall.depth
                        THEN Stored(table, ttCall.hash)
                        ELSE NoEntry

\* across one ttStore call: an entry that was stored stays stored, its depth
\* does not decrease, and it changes only under the key of the call and only
\* when the new depth is at least the stored one
StoreKeepsDeeper ==
    pc' = "stored" =>
        \A k \in TableKeys :
            Stored(table, k) # NoEntry =>
                /\ Stored(table', k) # NoEntry
                /\ Stored(table', k).depth >= Stored(table, k).depth
                /\ Stored(table', k) # Stored(table, k) =>
                      /\ k = ttCall'.hash
                      /\ ttCall'.depth >= Stored(table, k).depth

\* C20: for every key the depth of the stored entry never decreases over
\* ttStore calls (no clear or eviction in between): ttStore replaces an
\* existing entry only when the new depth is >= the stored depth and otherwise
\* leaves its score, flag and best move untouched; ttLookup(hash, d) returns
\* the entry only when its depth is >= d and reports a miss otherwise.
C20_DepthPreferred == [][StoreKeepsDeeper]_vars /\ []LookupUsable

\* a store with a smaller depth than the entry under its key has been made,
\* and the entry is a deeper one that replaced a shallower one or stayed
C20_Witness ==
    /\ pc = "stored"
    /\ Stored(table, ttCall.hash).depth > ttCall.depth
    /\ Len(table) = 2

\* C21: a getBestMove call with the grandmaster preset runs MCTS simulations
\* together with the minimax search: when it has returned a move, a search
\* tree has been built and simulations have been made.
C21_GrandmasterRunsMCTS ==
    (pc = "returned" /\ difficulties[currentPlayer] = "grandmaster" /\ bestMove # NoMove)
        => (tree # EmptyMap /\ simulation > 0)

\* C22: computeHash(board, toMove) depends only on the type and color of the
\* piece in each cell and on toMove: a call gives the hash of the first call
\* with that side to move whenever the layout is the same, whatever ids
\* the pieces have and whatever moves were applied and reversed in between.
C22_HashOfLayout ==
    pc = "hashed" =>
        (hashCall.first[hashCall.last.player].layout = hashCall.last.layout
            => hashCall.first[hashCall.last.player].hash = hashCall.last.hash)

\* a call on a board whose pieces have other ids than at the first call with
\* that side to move, after a move and its reverse
C22_Witness ==
    /\ pc = "hashed"
    /\ hashCall.undone /\ hashCall.relabelled /\ hashCall.applied = <<>>
    /\ hashCall.first[hashCall.last.player].layout = hashCall.last.layout
    /\ hashCall.first[hashCall.last.player].hash = hashCall.last.hash

\* C23: a table entry the search of a root color takes a score or a bound
\* from was written by a search for the same root color, and its score is a
\* search value with no root-level penalty in it
C23_EntriesConsistent ==
    \A r \in ttReads : r.writer = r.reader /\ r.pure

\* the nodes a simulation step has visited, and the deepest of them, which is
\* the node the step evaluated
visitedBy(p) == p \notin DOMAIN tree \/ tree'[p].visits # tree[p].visits

evaluatedLeaf ==
    CHOOSE p \in DOMAIN tree' :
        /\ visitedBy(p)
        /\ \A q \in DOMAIN tree' : visitedBy(q) => Len(q) <= Len(p)

\* what a simulation step has added to the value of the root child on its path
addedToRootChild ==
    LET c == <<evaluatedLeaf[1]>>
    IN  tree'[c].wins - (IF c \in DOMAIN tree THEN tree[c].wins ELSE 0)

SimulationStep == pc = "mcts" /\ simulation' = simulation + 1

\* C24: in a 2-player search every simulation adds to the root child on the
\* selected path the rollout result of the evaluated leaf, seen from the root
\* player, whatever the depth of the leaf
C24_RootChildGetsResult ==
    [][(SimulationStep /\ detectPlayerCount(board) # 4)
          => addedToRootChild = rollout(tree'[evaluatedLeaf].board,
                                        tree'[evaluatedLeaf].player, currentPlayer)]_vars

\* the key the turn loop records the position after move under, and the key
\* minimaxRoot queries the penalties of the candidate move with
recordedKey(move) ==
    computeHash(simulateMove(board, move), getNextPlayer4P(currentPlayer, placements))

queriedKey(move) ==
    LET newBoard == simulateMove(board, move)
    IN  computeHash(newBoard, getNextPlayer(currentPlayer, newBoard))

candidateMoves ==
    LET legal == getAllLegalMoves(board, currentPlayer)
    IN  {legal[i] : i \in 1 .. Len(legal)}

\* C25: for every candidate move of the player to move, the key the search
\* queries equals the key the turn loop records, and a candidate that leads
\* to a recorded position gets a positive repetition penalty
C25_SameKey ==
    (pc = "turn" /\ playerCount = 4) =>
        \A move \in candidateMoves :
            /\ queriedKey(move) = recordedKey(move)
            /\ MapGet(positionHistory, recordedKey(move), 0) >= 1
                 => getRepetitionPenalty(simulateMove(board, move),
                                         getNextPlayer(currentPlayer,
                                                       simulateMove(board, move))) > 0

\* a getBestMove call returns in this step
CallReturns == pc # "returned" /\ pc' = "returned"

\* the preset of the call runs minimaxRoot (not the depth-0 choice, not MCTS)
isMinimaxCall(config) == ~isPureMCTS(config) /\ config.depth # 0

\* C26: a minimax call that returns a move appends exactly that move to the
\* minimax buffer (cut to the 12 most recent), an MCTS call does the same to
\* the MCTS buffer, and a call that returns no move appends nothing
C26_BufferIsReturnedMoves ==
    [][(CallReturns /\ isMinimaxCall(aiConfig)
            => recentMoves' = IF bestMove' = NoMove THEN recentMoves
                              ELSE pushRecent(recentMoves, bestMove'))
       /\ (CallReturns /\ isPureMCTS(aiConfig)
            => mctsRecentMoves' = IF bestMove' = NoMove THEN mctsRecentMoves
                                  ELSE recordMove(mctsRecentMoves, bestMove'))]_vars

\* the state of the caches when the first iteration of iterativeDeepening
\* starts, and the configuration of iteration d
deepeningStart == [caches EXCEPT !.killerMoves = EmptyMap]

iterationConfig(d) == [aiConfig EXCEPT !.depth = d]

\* C27: when a call with iterative deepening is about to be made, the root
\* ordering of the second iteration gets as hash move the best move the
\* first iteration returns and stores for the root position
C27_PreviousBestFirst ==
    (pc = "turn" /\ aiConfig.useIterativeDeepening /\ aiConfig.timeLimit # 0
        /\ aiConfig.depth >= 2 /\ getAllLegalMoves(board, currentPlayer) # <<>>)
    => \A first \in {minimaxRoot(board, currentPlayer, iterationConfig(1),
                                 deepeningStart, recentMoves, 0)} :
          rootHashMove(board, currentPlayer, iterationConfig(2), first.s) = first.move

\* the configuration minimaxRoot runs with, and the depth left at the root's
\* children
searchConfig == [aiConfig EXCEPT !.depth = Min(aiConfig.depth, MaxDepth)]

\* some color has all of its pieces on its goal line (evaluateBoard's
\* terminal check)
isFinishedPosition(b) == checkWinner(b, <<>>) # NoColor

\* the value minimaxSearch returns for the position after a root move when
\* called with the full window
searchedValue(move) ==
    LET newBoard == simulateMove(board, move)
    IN  minimaxSearch(newBoard, searchConfig.depth - 1,
                      getNextPlayer(currentPlayer, newBoard), 0 - INFINITY, INFINITY,
                      FALSE, currentPlayer, searchConfig, caches).score

\* C28: a root move that leads to a finished position is valued, at any
\* remaining depth, with the evaluation of that position
C28_FinishedIsTerminal ==
    (pc = "turn" /\ searchConfig.depth >= 2) =>
        \A move \in candidateMoves :
            isFinishedPosition(simulateMove(board, move))
                => searchedValue(move)
                     = leafValue(simulateMove(board, move),
                                 getNextPlayer(currentPlayer, simulateMove(board, move)),
                                 currentPlayer)

\* C29: after an ordering call whose hash move is among the moves, the hash
\* move is the first of the ordered moves
C29_HashMoveFirst ==
    orderCall # NoOrderCall => sameSquares(orderCall.ordered[1], orderCall.hashMove)

\* the flag of standard alpha-beta bookkeeping for a node searched with the
\* window (alpha, beta)
standardFlag(value, alpha, beta) ==
    IF value <= alpha THEN "upper"
    ELSE IF value >= beta THEN "lower"
    ELSE "exact"

\* the caches after minimaxSearch, called with the full window, has searched
\* the position after a root move
searchedChild(move) ==
    LET newBoard == simulateMove(board, move)
    IN  minimaxSearch(newBoard, searchConfig.depth - 1,
                      getNextPlayer(currentPlayer, newBoard), 0 - INFINITY, INFINITY,
                      FALSE, currentPlayer, searchConfig, caches)

\* the node of the position after a root move is searched and stored anew
storesChild(move) ==
    LET newBoard == simulateMove(board, move)
        next == getNextPlayer(currentPlayer, newBoard)
    IN  /\ ttIndex(table, computeHash(newBoard, next)) = 0
        /\ getAllLegalMoves(newBoard, next) # <<>>

\* C30: the entry minimaxSearch stores for a node searched with the window
\* (alpha, beta) has the flag of standard bookkeeping: upper for a value
\* <= alpha, lower for a value >= beta, exact in between
C30_StandardFlags ==
    (pc = "turn" /\ searchConfig.useTT /\ searchConfig.depth >= 2) =>
        \A move \in candidateMoves :
            storesChild(move) =>
                \A r \in {searchedChild(move)} :
                    ttLookup(r.s.table, queriedKey(move), 0).flag
                        = standardFlag(r.score, 0 - INFINITY, INFINITY)
----------------------------------------------------------------------------
(* C31: a color that moved and now has all its pieces on its goal line is   *)
(* placed before its turn passes                                            *)

\* the last store action passed the turn of a color that had moved a piece in
\* that turn
TurnPassedAfterMove == lastOp.passed /\ ~lastOp.replaced /\ lastOp.chain # <<>>

\* C31: whenever a store action (movePiece, finishTurn, executeDisruption,
\* skipDisruption, performAiMove) passes the turn of a color that moved in the
\* turn and has all its pieces on its goal line, that color is in placements,
\* and winner is set when the game is over
C31_FinishedIsPlaced ==
    (TurnPassedAfterMove /\ hasPlayerFinished(board, lastOp.passedFrom))
        => /\ lastOp.passedFrom \in SeqToSet(placements)
           /\ isGameOver(placements, playerCount) => gameWinner # NoColor

----------------------------------------------------------------------------
(* C32: within one turn, a move after the first is a jump of the same piece *)
(* from the cell where it landed                                            *)

\* C32: of the moves accepted in one turn, every move after the first follows
\* a jump, is itself a jump and starts from the cell where the move before it
\* landed
C32_OnlyChainJumps ==
    \A i \in 2 .. Len(lastOp.chain) :
        /\ lastOp.chain[i - 1].isJump
        /\ lastOp.chain[i].isJump
        /\ lastOp.chain[i].from = lastOp.chain[i - 1].to

----------------------------------------------------------------------------
(* C33: performAiMove plays only the turn it was started for                *)

\* C33: when the store is not the one a performAiMove call was started in, the
\* rest of the call after the delay changes nothing in it (no move, no turn
\* passed); and a piece it moves belongs to a color played by the computer
C33_OnlyItsOwnTurn ==
    lastOp.op = "performAiMove" =>
        /\ lastOp.stale => ~lastOp.changed
        /\ lastOp.moved => playerTypes[lastOp.mover] = "computer"

----------------------------------------------------------------------------
(* C38: the circle disruption                                               *)

\* the disruption on offer is for an opposing circle off its starting line
\* and off its goal line
OfferedForCircleInPlay ==
    pendingDisruption # NoDisruption =>
        /\ pendingDisruption.jumpedCircle.type = "circle"
        /\ ~OnOwnStartLine(pendingDisruption.jumpedCircle.color,
                           pendingDisruption.jumpedFrom)
        /\ ~OnGoalLine(pendingDisruption.jumpedCircle.color,
                       pendingDisruption.jumpedFrom)

\* C38: a disruption is offered only for a jumped opposing circle that is
\* neither on its owner's starting line nor on its goal line, and
\* executeDisruption raises no fault and, when it changes the board, leaves
\* that circle on a cell of its owner's starting line
C38_DisruptionToStartLine ==
    /\ OfferedForCircleInPlay
    /\ lastOp.op = "executeDisruption" =>
          /\ ~lastOp.fault
          /\ lastOp.changed =>
                /\ At(board, lastOp.to.x, lastOp.to.y).type = "circle"
                /\ OnOwnStartLine(At(board, lastOp.to.x, lastOp.to.y).color, lastOp.to)

----------------------------------------------------------------------------
(* C34: the discounts of the final MCTS selection                           *)

\* the final score of a root child with each of the three discounts applied
\* or left out: the move discount (reversed or repeated move), the position
\* penalty (getCombinedPenalty / 1000) and the repetition discount (* 0.1)
scoreWith(child, recent, moveRule, positionRule, repetitionRule) ==
    LET winRate100 == IF child.visits > 0 THEN child.wins ELSE 0
        discounted ==
            IF moveRule /\ (isReverseMove(recent, child.move) \/ isSameMove(recent, child.move))
            THEN BigTimes(Big(winRate100), REPETITION_PENALTY_VISITS)
            ELSE BigTimes(Big(winRate100), 10)
        positionPenalty == getCombinedPenalty(child.board, child.player)
        penalized == IF positionRule /\ positionPenalty > 0
                     THEN BigMinus(discounted, BigTimes(Big(positionPenalty), 400))
                     ELSE discounted
    IN  IF positionRule /\ positionPenalty = PosInf THEN BigNegInf
        ELSE IF repetitionRule /\ wouldCauseRepetition(child.board, child.player)
        THEN penalized
        ELSE BigTimes(penalized, 10)

\* the root children of the running search that carry a move
rootChildren ==
    IF tree = EmptyMap THEN {}
    ELSE {tree[<<i>>] : i \in {j \in 1 .. tree[<<>>].children : tree[<<j>>].move # NoMove}}

\* C34: for every root child of the search, the final score is the one with
\* all three discounts, and leaving any one discount out never gives a lower
\* score than applying it
C34_DiscountsOnlyLower ==
    \A child \in rootChildren :
        \A full \in {scoreWith(child, mctsRecentMoves, TRUE, TRUE, TRUE)} :
            /\ finalScore(child, mctsRecentMoves) = full
            /\ ~BigLess(scoreWith(child, mctsRecentMoves, FALSE, TRUE, TRUE), full)
            /\ ~BigLess(scoreWith(child, mctsRecentMoves, TRUE, FALSE, TRUE), full)
            /\ ~BigLess(scoreWith(child, mctsRecentMoves, TRUE, TRUE, FALSE), full)


(***************************************************************************)
(* The simulation loop of mctsSearch on positions with few moves, where    *)
(* the selection descends below the root's children.                       *)
(***************************************************************************)
BackpropBoards ==
    {BoardOf({<<0, 0, rt, "red">>, <<9, 9, bt, "blue">>}) :
        rt \in {"square", "diamond"}, bt \in {"square", "diamond"}}
    \cup {BoardOf({<<0, 4, rt, "red">>, <<7, 2, "circle", "green">>,
                   <<6, 6, "diamond", "blue">>, <<2, 7, "diamond", "yellow">>}) :
              rt \in {"square", "triangle"}}

InitBackprop ==
    /\ NoCalls
    /\ board \in BackpropBoards
    /\ currentPlayer \in {board[c.y][c.x].color : c \in {d \in Cells : Occupied(board, d.x, d.y)}}
    /\ playerCount = detectPlayerCount(board)
    /\ moveCount = 0
    /\ positionHistory = EmptyMap
    /\ bestProgress = EmptyMap
    /\ stagnationCount = EmptyMap
    /\ difficulties = [c \in Colors |-> "master"]
    /\ table = <<>>
    /\ killerMoves = EmptyMap
    /\ historyTable = EmptyMap
    /\ recentMoves = <<>>
    /\ mctsRecentMoves = <<>>
    /\ bestMove = NoMove
    /\ tree = EmptyMap
    /\ simulation = 0
    /\ searches = 0
    /\ placements = <<>>
    /\ plies = 0
    /\ pc = "turn"
    /\ vPiece = NoPiece
    /\ vFrom = Pos(0, 0)
    /\ vTo = Pos(0, 0)
    /\ valid = FALSE
    /\ genColor = "red"
    /\ moves = <<>>

NextBackprop == MctsStart \/ MctsSimulate \/ MctsFinish

SpecBackprop == InitBackprop /\ [][NextBackprop]_vars

\* the nodes from the evaluated node up to the root
onPath(p) == \E k \in 0 .. Len(evaluatedLeaf) : p = SubSeq(evaluatedLeaf, 1, k)

\* the rollout result of a simulation step, at its evaluated node
rolloutResult ==
    rollout(tree'[evaluatedLeaf].board, tree'[evaluatedLeaf].player, currentPlayer)

\* r' of the node at path p: complemented per level in 2-player mode, by the
\* node's mover in 4-player mode
expectedGain(p) ==
    IF detectPlayerCount(board) = 4
    THEN (IF tree'[p].player = currentPlayer THEN rolloutResult
          ELSE WinUnit - rolloutResult)
    ELSE IF (Len(evaluatedLeaf) - Len(p)) % 2 = 0 THEN rolloutResult
         ELSE WinUnit - rolloutResult

visitsBefore(p) == IF p \in DOMAIN tree THEN tree[p].visits ELSE 0

winsBefore(p) == IF p \in DOMAIN tree THEN tree[p].wins ELSE 0

PathUpdatedOnce ==
    \A p \in DOMAIN tree' :
        IF onPath(p)
        THEN /\ tree'[p].visits = visitsBefore(p) + 1
             /\ tree'[p].wins = winsBefore(p) + expectedGain(p)
        ELSE /\ p \in DOMAIN tree
             /\ tree'[p].visits = tree[p].visits
             /\ tree'[p].wins = tree[p].wins

TreeCounts ==
    pc = "mcts" =>
        /\ tree[<<>>].visits = simulation
        /\ \A p \in DOMAIN tree :
              0 <= tree[p].wins /\ tree[p].wins <= tree[p].visits * WinUnit

\* C36: every simulation adds one visit and the result r' to exactly the nodes
\* from the evaluated node up to the root (2-player: r' is the rollout result
\* at the evaluated node and its complement alternately going up; 4-player:
\* the result at nodes of the root color, its complement at all others) and
\* leaves every other node alone; during a search the root's visits equal the
\* simulations run and 0 <= wins <= visits at every node
C36_PathUpdatedOnce ==
    /\ [][SimulationStep => PathUpdatedOnce]_vars
    /\ []TreeCounts

\* a 4-player search in which a node two levels below the root has been
\* evaluated and is the node of a mover other than the root color
C36_DeepNodeEvaluated ==
    /\ pc = "mcts"
    /\ detectPlayerCount(board) = 4
    /\ \E p \in DOMAIN tree :
          /\ Len(p) >= 2
          /\ tree[p].visits >= 1
          /\ tree[p].player # currentPlayer

(***************************************************************************)
(* Sequences of storeKiller and clearKillers calls (ai/moveOrdering.ts).   *)
(* orderCall records the last call: the move, the depth and the list of    *)
(* that depth before the call.                                             *)
(***************************************************************************)

\* moves the search stores: three different (from, to), one of them made by
\* either of two pieces
KillerMoves ==
    {Move(Pos(4, 6), Pos(4, 5), createPiece("triangle", "red", 1)),
     Move(Pos(4, 6), Pos(4, 5), createPiece("square", "red", 1)),
     Move(Pos(4, 6), Pos(3, 5), createPiece("triangle", "red", 1)),
     Move(Pos(4, 7), Pos(5, 7), createPiece("square", "red", 1))}

InitKillers ==
    /\ NoCalls
    /\ board = RaceBoard
    /\ currentPlayer = "red"
    /\ playerCount = 2
    /\ moveCount = 0
    /\ positionHistory = EmptyMap
    /\ bestProgress = EmptyMap
    /\ stagnationCount = EmptyMap
    /\ difficulties = [c \in Colors |-> "challenging"]
    /\ table = <<>>
    /\ killerMoves = EmptyMap
    /\ historyTable = EmptyMap
    /\ recentMoves = <<>>
    /\ mctsRecentMoves = <<>>
    /\ bestMove = NoMove
    /\ tree = EmptyMap
    /\ simulation = 0
    /\ searches = 0
    /\ placements = <<>>
    /\ plies = 0
    /\ pc = "turn"
    /\ vPiece = NoPiece
    /\ vFrom = Pos(0, 0)
    /\ vTo = Pos(0, 0)
    /\ valid = FALSE
    /\ genColor = "red"
    /\ moves = <<>>

\* the variables a killer call leaves alone
killerFrame ==
    <<orderFrame, table, historyTable, recentMoves, mctsRecentMoves, positionHistory,
      bestProgress, stagnationCount, moveCount, difficulties, bestMove, tree,
      simulation, searches>>

\* storeKiller(depth, move)
StoreKiller ==
    /\ \E depth \in 1 .. MaxDepth, move \in KillerMoves :
          /\ orderCall' = [stored |-> move, depth |-> depth,
                           before |-> getKillers(killerMoves, depth)]
          /\ killerMoves' = storeKiller(killerMoves, depth, move)
    /\ UNCHANGED killerFrame

\* clearKillers()
ClearKillers ==
    /\ killerMoves # EmptyMap
    /\ killerMoves' = EmptyMap
    /\ orderCall' = [stored |-> NoMove, depth |-> 0, before |-> <<>>]
    /\ UNCHANGED killerFrame

NextKillers == StoreKiller \/ ClearKillers

SpecKillers == InitKillers /\ [][NextKillers]_vars

\* the last call was storeKiller with a move whose (from, to) was in the list
storedDuplicate ==
    /\ "stored" \in DOMAIN orderCall
    /\ \E i \in 1 .. Len(orderCall.before) :
          sameSquares(orderCall.before[i], orderCall.stored)

\* C40: the killer list of every depth holds at most 2 moves, no two of them
\* with the same (from, to), and a storeKiller call with a move whose
\* (from, to) is already in the list of its depth leaves that list as it was
C40_KillersFewAndDistinct ==
    /\ \A depth \in 1 .. MaxDepth :
          LET list == getKillers(killerMoves, depth)
          IN  /\ Len(list) <= 2
              /\ \A i, j \in 1 .. Len(list) :
                    i # j => ~sameSquares(list[i], list[j])
    /\ storedDuplicate =>
          getKillers(killerMoves, orderCall.depth) = orderCall.before

\* a full list was offered a move it holds the (from, to) of, made by
\* another piece
C40_DuplicateOfferedToFullList ==
    /\ storedDuplicate
    /\ Len(orderCall.before) = 2
    /\ \A i \in 1 .. 2 : orderCall.before[i] # orderCall.stored

(***************************************************************************)
(* Single calls of minimaxSearch and minimaxRoot (ai/minimax.ts) with the  *)
(* transposition table off, randomness 0 and no repetition penalties, on   *)
(* positions with few moves.  searchCall records the last call.            *)
(***************************************************************************)

\* deepest search called
MaxSearchDepth == 3

SearchBoards ==
    {BoardOf({<<0, 4, rt, "red">>, <<1, 6, bt, "blue">>}) :
        rt \in {"square", "triangle"}, bt \in {"square", "diamond", "circle"}}
    \cup {BoardOf({<<0, 4, rt, "red">>, <<9, 0, "circle", "green">>,
                   <<9, 9, "diamond", "blue">>, <<0, 8, "square", "yellow">>}) :
              rt \in {"square", "triangle"}}

colorsOn(b) == {b[c.y][c.x].color : c \in {d \in Cells : Occupied(b, d.x, d.y)}}

plainConfig(depth) ==
    [AIConfig(depth, 0, FALSE, FALSE, FALSE, 0, 0) EXCEPT !.useRepetitionPenalty = FALSE]

\* the caches of a search that is asked for its calls
tracing ==
    [table |-> table, killerMoves |-> killerMoves, historyTable |-> historyTable,
     reads |-> {}, calls |-> {}]

InitSearch ==
    /\ NoCalls
    /\ board \in SearchBoards
    /\ currentPlayer \in colorsOn(board)
    /\ playerCount = detectPlayerCount(board)
    /\ moveCount = 0
    /\ positionHistory = EmptyMap
    /\ bestProgress = EmptyMap
    /\ stagnationCount = EmptyMap
    /\ difficulties = [c \in Colors |-> "medium"]
    /\ table = <<>>
    /\ killerMoves = EmptyMap
    /\ historyTable = EmptyMap
    /\ recentMoves = <<>>
    /\ mctsRecentMoves = <<>>
    /\ bestMove = NoMove
    /\ tree = EmptyMap
    /\ simulation = 0
    /\ searches = 0
    /\ placements = <<>>
    /\ plies = 0
    /\ pc = "turn"
    /\ vPiece = NoPiece
    /\ vFrom = Pos(0, 0)
    /\ vTo = Pos(0, 0)
    /\ valid = FALSE
    /\ genColor = "red"
    /\ moves = <<>>

\* the variables a search call without transposition table leaves alone
searchFrame ==
    <<board, currentPlayer, vPiece, vFrom, vTo, valid, genColor, moves, playerCount,
      placements, plies, pc, won, heap, heapAtCall, simBoard, simMove, simResult,
      copies, evalColor, evalScore, evalBefore, ttCall, hashCall, ttReads, orderCall,
      storeVars, table, killerMoves, historyTable, mctsRecentMoves, positionHistory,
      bestProgress, stagnationCount, moveCount, difficulties, tree, simulation>>

\* minimaxSearch(board, depth, player, -INFINITY, INFINITY, isMaximizing,
\* rootPlayer, config) for the player to move
MinimaxSearch ==
    /\ searchCall = NoSearchCall
    /\ \E depth \in 1 .. MaxSearchDepth, rootPlayer \in colorsOn(board) :
          \E r \in {minimaxSearch(board, depth, currentPlayer, 0 - INFINITY, INFINITY,
                                  currentPlayer = rootPlayer, rootPlayer,
                                  plainConfig(depth), tracing)} :
              searchCall' = [op |-> "minimaxSearch", depth |-> depth,
                             rootPlayer |-> rootPlayer, score |-> r.score,
                             move |-> NoMove, calls |-> r.s.calls]
    /\ UNCHANGED <<searchFrame, recentMoves, bestMove, searches>>

\* minimaxRoot(board, currentPlayer, config)
MinimaxRoot ==
    /\ searchCall = NoSearchCall
    /\ \E depth \in 1 .. MaxSearchDepth :
          \E r \in {minimaxRoot(board, currentPlayer, plainConfig(depth), tracing,
                                recentMoves, 0)} :
              /\ searchCall' = [op |-> "minimaxRoot", depth |-> depth,
                                rootPlayer |-> currentPlayer, score |-> 0,
                                move |-> r.move, calls |-> r.s.calls]
              /\ bestMove' = r.move
              /\ recentMoves' = r.recentMoves
    /\ UNCHANGED <<searchFrame, searches>>

NextSearch == MinimaxSearch \/ MinimaxRoot

SpecSearch == InitSearch /\ [][NextSearch]_vars

\* C35: every minimaxSearch call of a search, those of the root included, has
\* isMaximizing set exactly when the player to move at its node is the root
\* player; so in 2-player mode the node types alternate per ply and in
\* 4-player mode only the nodes of the root color maximize
C35_MaximizesIffRootToMove ==
    searchCall.op # "none" =>
        \A call \in searchCall.calls :
            /\ call.rootPlayer = searchCall.rootPlayer
            /\ call.isMaximizing <=> (call.player = call.rootPlayer)

\* a 4-player search below a node of another color than the root's made
\* calls for nodes of the root color that have nodes below them, and for
\* nodes of two other colors
C35_DeepFourPlayerCalls ==
    /\ searchCall.op = "minimaxSearch"
    /\ detectPlayerCount(board) = 4
    /\ currentPlayer # searchCall.rootPlayer
    /\ \E c1, c2, c3 \in searchCall.calls :
          /\ c1.player = searchCall.rootPlayer /\ c1.depth >= 1
          /\ c2.player # searchCall.rootPlayer /\ c2.depth = c1.depth + 1
          /\ c3.player \notin {c2.player, searchCall.rootPlayer}

\* the plain minimax value of the tree of the given depth below a node: the
\* maximum over the moves at a node of the root player, the minimum at any
\* other node, the value of the position where the search stops
RECURSIVE plainMinimax(_, _, _, _)
plainMinimax(b, depth, player, rootPlayer) ==
    LET legal == getAllLegalMoves(b, player)
        below == {plainMinimax(simulateMove(b, legal[i]), depth - 1,
                               getNextPlayer(player, simulateMove(b, legal[i])),
                               rootPlayer) : i \in 1 .. Len(legal)}
    IN  IF depth = 0 \/ legal = <<>> THEN leafValue(b, player, rootPlayer)
        ELSE IF player = rootPlayer
        THEN CHOOSE v \in below : \A w \in below : w <= v
        ELSE CHOOSE v \in below : \A w \in below : v <= w

\* the plain minimax value of a root move
plainOfMove(move, depth) ==
    plainMinimax(simulateMove(board, move), depth - 1,
                 getNextPlayer(currentPlayer, simulateMove(board, move)), currentPlayer)

\* C37: without transposition table, randomness and repetition penalties the
\* value minimaxSearch returns for the window (-INFINITY, INFINITY) is the
\* plain minimax value of the tree of that depth, and the move minimaxRoot
\* returns has the largest plain minimax value of all root moves
C37_PruningKeepsResult ==
    /\ searchCall.op = "minimaxSearch" =>
          searchCall.score = plainMinimax(board, searchCall.depth, currentPlayer,
                                          searchCall.rootPlayer)
    /\ (searchCall.op = "minimaxRoot" /\ searchCall.move # NoMove) =>
          \A m \in SeqToSet(getAllLegalMoves(board, currentPlayer)) :
              plainOfMove(m, searchCall.depth) <= plainOfMove(searchCall.move, searchCall.depth)

\* the nodes of the full tree of the given depth below a node
RECURSIVE treeSize(_, _, _)
treeSize(b, depth, player) ==
    LET legal == getAllLegalMoves(b, player)
    IN  IF depth = 0 \/ legal = <<>> THEN 1
        ELSE 1 + Sum([i \in 1 .. Len(legal) |->
                         treeSize(simulateMove(b, legal[i]), depth - 1,
                                  getNextPlayer(player, simulateMove(b, legal[i])))])

\* a search of depth 3 that pruned: it made fewer calls than the tree has nodes
C37_SearchPruned ==
    /\ searchCall.op = "minimaxSearch"
    /\ searchCall.depth = 3
    /\ Cardinality(searchCall.calls) < treeSize(board, 3, currentPlayer)

(***************************************************************************)
(* The setup phase of the store (store/slices/setupSlice.ts): the players  *)
(* place their pieces in turn and confirm.  A human acts through the       *)
(* setup screen while it is the turn of a human; performAISetup is called  *)
(* by the effect of the setup screen and by the timers of                  *)
(* startGameWithSetup and confirmSetup, places the pieces at once and      *)
(* confirms after a delay.  aiCalls counts the timers and the delays that  *)
(* are running.                                                            *)
(***************************************************************************)

VALID_PLACEMENT_COLUMNS == <<1, 2, 3, 4, 5, 6, 7, 8>>

getStartingRow(color) ==
    CASE color = "red" -> 0
      [] color = "blue" -> 9
      [] OTHER -> -1

getStartingColumn(color) ==
    CASE color = "yellow" -> 0
      [] color = "green" -> 9
      [] OTHER -> -1

createUnplacedPieces(color, is4Player) ==
    LET six == <<createPiece("square", color, 1), createPiece("square", color, 2),
                 createPiece("triangle", color, 1), createPiece("triangle", color, 2),
                 createPiece("diamond", color, 1), createPiece("diamond", color, 2)>>
    IN  IF is4Player THEN six
        ELSE six \o <<createPiece("circle", color, 1), createPiece("circle", color, 2)>>

\* the slots of a color: rows 2-7 of its column for yellow and green, the
\* columns of its row for red and blue
slotRange(color, is4Player) ==
    IF color \in {"yellow", "green"} \/ is4Player THEN <<2, 3, 4, 5, 6, 7>>
    ELSE VALID_PLACEMENT_COLUMNS

\* the cell of a slot
slotCell(color, slot) ==
    IF color \in {"yellow", "green"} THEN Pos(getStartingColumn(color), slot)
    ELSE Pos(slot, getStartingRow(color))

getEmptySlots(b, color, is4Player) ==
    SelectSeq(slotRange(color, is4Player),
              LAMBDA slot : ~Occupied(b, slotCell(color, slot).x, slotCell(color, slot).y))

getNextSetupPlayer(current, players, confirmed) ==
    LET remaining == SelectSeq(players,
                               LAMBDA p : p \notin SeqToSet(confirmed) /\ p # current)
    IN  IF remaining # <<>> THEN remaining[1] ELSE NoColor

\* the orders shuffleArray and generateAISetup are taken to produce
Orders == {"same", "reversed"}

ordered(pieces, order) ==
    IF order = "same" THEN pieces
    ELSE [i \in 1 .. Len(pieces) |-> pieces[Len(pieces) + 1 - i]]

\* pieces[i] put on slot slots[i] for every i both have
placeAll(b, color, pieces, slots) ==
    [y \in Coords |-> [x \in Coords |->
        IF \E i \in 1 .. Min(Len(pieces), Len(slots)) : slotCell(color, slots[i]) = Pos(x, y)
        THEN pieces[CHOOSE i \in 1 .. Min(Len(pieces), Len(slots)) :
                        slotCell(color, slots[i]) = Pos(x, y)]
        ELSE b[y][x]]]

\* what the setup actions read and write; timer: the action has started a
\* performAISetup timer
setupState ==
    [board |-> board, setup |-> setup, phase |-> phase, currentPlayer |-> currentPlayer,
     isSetupOpen |-> isSetupOpen, timer |-> FALSE]

initializeSetupPhase(st, count) ==
    [st EXCEPT !.phase = "setup",
               !.board = EmptyBoard,
               !.setup = [unplacedPieces |->
                              [c \in Colors |->
                                  IF c \in SeqToSet(configPlayers(count))
                                  THEN createUnplacedPieces(c, count = 4) ELSE <<>>],
                          selectedSetupPiece |-> NoPiece,
                          setupPlayer |-> configPlayers(count)[1],
                          confirmedPlayers |-> <<>>]]

selectSetupPiece(st, piece) == [st EXCEPT !.setup.selectedSetupPiece = piece]

placeSetupPiece(st, column) ==
    LET player == st.setup.setupPlayer
        selected == st.setup.selectedSetupPiece
        cell == slotCell(player, column)
        validSlot == IF player \in {"yellow", "green"} THEN column >= 2 /\ column <= 7
                     ELSE column \in SeqToSet(slotRange(player, playerCount = 4))
    IN  IF selected = NoPiece \/ player = NoColor THEN st
        ELSE IF ~validSlot THEN st
        ELSE IF Occupied(st.board, cell.x, cell.y) THEN st
        ELSE [st EXCEPT !.board = Put(@, cell.x, cell.y, selected),
                        !.setup.unplacedPieces[player] =
                            SelectSeq(@, LAMBDA p : p.id # selected.id),
                        !.setup.selectedSetupPiece = NoPiece]

removeSetupPiece(st, column) ==
    LET player == st.setup.setupPlayer
        cell == slotCell(player, column)
        piece == At(st.board, cell.x, cell.y)
    IN  IF player = NoColor THEN st
        ELSE IF piece = NoPiece \/ piece.color # player THEN st
        ELSE [st EXCEPT !.board = Put(@, cell.x, cell.y, NoPiece),
                        !.setup.unplacedPieces[player] = Append(@, piece)]

clearSetup(st) ==
    LET player == st.setup.setupPlayer
        cells == {slotCell(player, slot) :
                     slot \in SeqToSet(slotRange(player, playerCount = 4))}
    IN  IF player = NoColor THEN st
        ELSE [st EXCEPT !.board = [y \in Coords |-> [x \in Coords |->
                                      IF Pos(x, y) \in cells /\ @[y][x].color = player
                                      THEN NoPiece ELSE @[y][x]]],
                        !.setup.unplacedPieces[player] =
                            createUnplacedPieces(player, playerCount = 4),
                        !.setup.selectedSetupPiece = NoPiece]

randomizeSetup(st, order) ==
    LET player == st.setup.setupPlayer
        freshState == clearSetup(st)
        pieces == ordered(freshState.setup.unplacedPieces[player], order)
        emptySlots == getEmptySlots(freshState.board, player, playerCount = 4)
    IN  IF player = NoColor THEN st
        ELSE [freshState EXCEPT
                !.board = placeAll(@, player, pieces, emptySlots),
                !.setup.unplacedPieces[player] = <<>>,
                !.setup.selectedSetupPiece = NoPiece]

\* confirmSetup without its test for pieces still to be placed
confirmSetupUnchecked(st) ==
    LET player == st.setup.setupPlayer
        players == configPlayers(playerCount)
        newConfirmed == Append(st.setup.confirmedPlayers, player)
        allConfirmed == \A p \in SeqToSet(players) : p \in SeqToSet(newConfirmed)
        nextSetupPlayer == getNextSetupPlayer(player, players, newConfirmed)
    IN  IF player = NoColor THEN st
        ELSE IF allConfirmed
        THEN [st EXCEPT !.phase = "playing",
                        !.setup.confirmedPlayers = newConfirmed,
                        !.setup.setupPlayer = NoColor,
                        !.currentPlayer = players[1],
                        !.isSetupOpen = FALSE]
        ELSE [st EXCEPT !.setup.confirmedPlayers = newConfirmed,
                        !.setup.setupPlayer = nextSetupPlayer,
                        !.setup.selectedSetupPiece = NoPiece,
                        !.timer = (nextSetupPlayer # NoColor
                                     /\ playerTypes[nextSetupPlayer] = "computer")]

confirmSetup(st) ==
    LET player == st.setup.setupPlayer
        players == configPlayers(playerCount)
        newConfirmed == Append(st.setup.confirmedPlayers, player)
        allConfirmed == \A p \in SeqToSet(players) : p \in SeqToSet(newConfirmed)
        nextSetupPlayer == getNextSetupPlayer(player, players, newConfirmed)
    IN  IF player = NoColor THEN st
        ELSE IF Len(st.setup.unplacedPieces[player]) > 0 THEN st
        ELSE IF allConfirmed
        THEN [st EXCEPT !.phase = "playing",
                        !.setup.confirmedPlayers = newConfirmed,
                        !.setup.setupPlayer = NoColor,
                        !.currentPlayer = players[1],
                        !.isSetupOpen = FALSE]
        ELSE [st EXCEPT !.setup.confirmedPlayers = newConfirmed,
                        !.setup.setupPlayer = nextSetupPlayer,
                        !.setup.selectedSetupPiece = NoPiece,
                        !.timer = (nextSetupPlayer # NoColor
                                     /\ playerTypes[nextSetupPlayer] = "computer")]

\* performAISetup goes on to place and, after its delay, to confirm
aiSetsUp(st) ==
    /\ st.setup.setupPlayer # NoColor
    /\ playerTypes[st.setup.setupPlayer] = "computer"

\* performAISetup up to its delay, with the arrangement generateAISetup made
performAISetup(st, order) ==
    LET player == st.setup.setupPlayer
        arrangement == ordered(createUnplacedPieces(player, playerCount = 4), order)
        slots == getEmptySlots(st.board, player, playerCount = 4)
    IN  IF ~aiSetsUp(st) THEN st
        ELSE [st EXCEPT !.board = placeAll(@, player, arrangement, slots),
                        !.setup.unplacedPieces[player] = <<>>,
                        !.setup.selectedSetupPiece = NoPiece]

\* selectSetupPiece, placeSetupPiece and removeSetupPiece calls of one setup
MaxHandCalls == 2

SetupConfigs ==
    {[playerCount |-> 2,
      playerTypes |-> [c \in Colors |-> IF c = "red" THEN "computer" ELSE "human"]],
     [playerCount |-> 2,
      playerTypes |-> [c \in Colors |-> IF c = "blue" THEN "computer" ELSE "human"]],
     [playerCount |-> 4,
      playerTypes |-> [c \in Colors |-> IF c = "green" THEN "human" ELSE "computer"]]}

\* the dependencies of the effect of the setup screen
setupDeps ==
    <<phase, setup.setupPlayer,
      setup.setupPlayer # NoColor /\ playerTypes[setup.setupPlayer] = "computer">>

setupFrame ==
    <<vPiece, vFrom, vTo, valid, genColor, moves, pc, bestMove, tree, simulation,
      searches, won, heap, heapAtCall, simBoard, simMove, simResult, copies,
      evalColor, evalScore, evalBefore, ttCall, hashCall, ttReads, orderCall,
      searchCall, placements, plies, pendingDisruption, isViewingHistory, gameWinner,
      boardHistory, historyIndex>>

sessionFrame ==
    <<playerCount, playerTypes, difficulties, table, killerMoves, historyTable,
      recentMoves, mctsRecentMoves, positionHistory, bestProgress, stagnationCount,
      moveCount>>

setSetup(after) ==
    /\ board' = after.board
    /\ setup' = after.setup
    /\ phase' = after.phase
    /\ currentPlayer' = after.currentPlayer
    /\ isSetupOpen' = after.isSetupOpen

\* what the call found and whether it changed anything; hand counts the
\* calls that select, place or remove a single piece
setupOp(name, by, after) ==
    [op |-> name, by |-> by,
     hand |-> IF name \in {"selectSetupPiece", "placeSetupPiece", "removeSetupPiece"}
              THEN lastOp.hand + 1 ELSE lastOp.hand,
     player |-> IF name = "confirmSetup" THEN setup.setupPlayer ELSE NoColor,
     unplaced |-> IF name # "confirmSetup" \/ setup.setupPlayer = NoColor THEN 0
                  ELSE Len(setup.unplacedPieces[setup.setupPlayer]),
     changed |-> after # setupState]

\* the screen is mounted in the setup phase; its effect runs after a change
\* of its dependencies
effectAfter == (phase' = "setup") /\ (effectDue \/ setupDeps' # setupDeps)

\* a call made from the setup screen by the human whose turn it is
HumanCall(name, result) ==
    /\ phase = "setup"
    /\ setup.setupPlayer # NoColor
    /\ playerTypes[setup.setupPlayer] = "human"
    /\ \E after \in {result} :
          /\ after # setupState
          /\ setSetup(after)
          /\ lastOp' = setupOp(name, "human", after)
          /\ aiCalls' = [aiCalls EXCEPT !.timers = @ + (IF after.timer THEN 1 ELSE 0)]
    /\ UNCHANGED <<setupFrame, sessionFrame>>
    /\ effectDue' = effectAfter

SelectSetupPiece ==
    /\ setup.setupPlayer # NoColor
    /\ phase = "setup"
    /\ lastOp.hand < MaxHandCalls
    /\ \E piece \in SeqToSet(setup.unplacedPieces[setup.setupPlayer]) :
          HumanCall("selectSetupPiece", selectSetupPiece(setupState, piece))

PlaceSetupPiece ==
    /\ phase = "setup"
    /\ lastOp.hand < MaxHandCalls
    /\ \E column \in Coords :
          HumanCall("placeSetupPiece", placeSetupPiece(setupState, column))

RemoveSetupPiece ==
    /\ phase = "setup"
    /\ lastOp.hand < MaxHandCalls
    /\ \E column \in Coords :
          HumanCall("removeSetupPiece", removeSetupPiece(setupState, column))

ClearSetup == HumanCall("clearSetup", clearSetup(setupState))

RandomizeSetup ==
    \E order \in Orders : HumanCall("randomizeSetup", randomizeSetup(setupState, order))

\* the confirm button is enabled once nothing is left to place
ConfirmSetup ==
    /\ setup.setupPlayer # NoColor
    /\ Len(setup.unplacedPieces[setup.setupPlayer]) = 0
    /\ HumanCall("confirmSetup", confirmSetup(setupState))

\* a performAISetup call up to its delay
AiSetupCall(by, calls) ==
    /\ \E order \in Orders :
          \E after \in {performAISetup(setupState, order)} :
              /\ setSetup(after)
              /\ lastOp' = setupOp("performAISetup", by, after)
    /\ aiCalls' = [calls EXCEPT !.delays = @ + (IF aiSetsUp(setupState) THEN 1 ELSE 0)]
    /\ UNCHANGED <<setupFrame, sessionFrame>>

\* the effect of the setup screen
RunSetupEffect ==
    /\ effectDue
    /\ phase = "setup"
    /\ AiSetupCall("effect", aiCalls)
    /\ effectDue' = FALSE

\* a timer of startGameWithSetup or confirmSetup fires
SetupTimerFires ==
    /\ aiCalls.timers > 0
    /\ AiSetupCall("timer", [aiCalls EXCEPT !.timers = @ - 1])
    /\ effectDue' = effectAfter

\* the delay of a performAISetup call ends: it calls confirmSetup
SetupDelayEnds ==
    /\ aiCalls.delays > 0
    /\ \E after \in {confirmSetup(setupState)} :
          /\ setSetup(after)
          /\ lastOp' = setupOp("confirmSetup", "delay", after)
          /\ aiCalls' = [timers |-> aiCalls.timers + (IF after.timer THEN 1 ELSE 0),
                         delays |-> aiCalls.delays - 1]
    /\ UNCHANGED <<setupFrame, sessionFrame>>
    /\ effectDue' = effectAfter

StartGameWithSetup ==
    /\ phase = "config"
    /\ isSetupOpen
    /\ \E config \in SetupConfigs :
          /\ playerCount' = config.playerCount
          /\ playerTypes' = config.playerTypes
          /\ setSetup(initializeSetupPhase([setupState EXCEPT !.isSetupOpen = FALSE],
                                           config.playerCount))
          /\ aiCalls' = [aiCalls EXCEPT
                           !.timers = @ + (IF config.playerTypes[
                                                  configPlayers(config.playerCount)[1]]
                                                = "computer" THEN 1 ELSE 0)]
    /\ lastOp' = [op |-> "startGameWithSetup", by |-> "human", hand |-> 0,
                  player |-> NoColor, unplaced |-> 0, changed |-> TRUE]
    /\ recentMoves' = <<>>
    /\ killerMoves' = EmptyMap
    /\ historyTable' = EmptyMap
    /\ table' = <<>>
    /\ mctsRecentMoves' = resetMCTSHistory(mctsRecentMoves)
    /\ positionHistory' = EmptyHistory.positionHistory
    /\ bestProgress' = EmptyHistory.bestProgress
    /\ stagnationCount' = EmptyHistory.stagnationCount
    /\ moveCount' = EmptyHistory.moveCount
    /\ effectDue' = TRUE
    /\ UNCHANGED <<setupFrame, difficulties>>

InitSetup ==
    /\ board = createInitialBoard(2)
    /\ currentPlayer = "red"
    /\ playerCount = 2
    /\ phase = "config"
    /\ setup = createInitialSetupState
    /\ isSetupOpen = TRUE
    /\ pendingDisruption = NoDisruption
    /\ isViewingHistory = FALSE
    /\ gameWinner = NoColor
    /\ boardHistory = <<>>
    /\ historyIndex = -1
    /\ playerTypes = [c \in Colors |-> IF c = "blue" THEN "computer" ELSE "human"]
    /\ difficulties = [c \in Colors |-> "medium"]
    /\ aiCalls = [timers |-> 0, delays |-> 0]
    /\ effectDue = FALSE
    /\ lastOp = NoOp
    /\ placements = <<>>
    /\ plies = 0
    /\ moveCount = 0
    /\ positionHistory = EmptyMap
    /\ bestProgress = EmptyMap
    /\ stagnationCount = EmptyMap
    /\ table = <<>>
    /\ killerMoves = EmptyMap
    /\ historyTable = EmptyMap
    /\ recentMoves = <<>>
    /\ mctsRecentMoves = <<>>
    /\ bestMove = NoMove
    /\ tree = EmptyMap
    /\ simulation = 0
    /\ searches = 0
    /\ pc = "turn"
    /\ vPiece = NoPiece
    /\ vFrom = Pos(0, 0)
    /\ vTo = Pos(0, 0)
    /\ valid = FALSE
    /\ genColor = "red"
    /\ moves = <<>>
    /\ won = "none"
    /\ heap = <<>>
    /\ heapAtCall = <<>>
    /\ simBoard = 0
    /\ simMove = [from |-> Pos(0, 0), to |-> Pos(0, 0)]
    /\ simResult = 0
    /\ copies = 0
    /\ evalColor = "red"
    /\ evalScore = 0
    /\ evalBefore = 0
    /\ ttCall = NoTtCall
    /\ hashCall = NoHashCall
    /\ ttReads = {}
    /\ orderCall = NoOrderCall
    /\ searchCall = NoSearchCall

NextSetup ==
    \/ StartGameWithSetup
    \/ SelectSetupPiece
    \/ PlaceSetupPiece
    \/ RemoveSetupPiece
    \/ ClearSetup
    \/ RandomizeSetup
    \/ ConfirmSetup
    \/ RunSetupEffect
    \/ SetupTimerFires
    \/ SetupDelayEnds

SpecSetup == InitSetup /\ [][NextSetup]_vars

\* the cells of the starting line of a color that are not corners
lineCells(color) ==
    {slotCell(color, slot) : slot \in SeqToSet(slotRange(color, playerCount = 4))}

\* every piece of the color stands on exactly one cell, a cell of its line
allPlacedOnLine(color) ==
    \A i \in 1 .. Len(createUnplacedPieces(color, playerCount = 4)) :
        LET piece == createUnplacedPieces(color, playerCount = 4)[i]
            on == {c \in Cells : board[c.y][c.x] = piece}
        IN  Cardinality(on) = 1 /\ on \subseteq lineCells(color)

\* C39: in the setup phase, however the calls of the human, of the effect
\* and of the timers interleave, a confirmSetup call changes nothing while
\* the setup player has pieces left to place, no player is confirmed twice,
\* and when the phase is 'playing' every configured player is confirmed and
\* has each of its pieces on a cell of its own starting line, no corner
\* among them
C39_SetupConfirmedOnce ==
    /\ (lastOp.op = "confirmSetup" /\ lastOp.unplaced > 0) => ~lastOp.changed
    /\ \A i, j \in 1 .. Len(setup.confirmedPlayers) :
          i # j => setup.confirmedPlayers[i] # setup.confirmedPlayers[j]
    /\ phase = "playing" =>
          \A p \in SeqToSet(configPlayers(playerCount)) :
              /\ p \in SeqToSet(setup.confirmedPlayers)
              /\ allPlacedOnLine(p)

\* the delay of a performAISetup call ended when it was the turn of a human
\* who had pieces left to place
C39_LateConfirmFindsHuman ==
    /\ lastOp.op = "confirmSetup"
    /\ lastOp.by = "delay"
    /\ lastOp.unplaced > 0
    /\ playerTypes[lastOp.player] = "human"
====
